---- MODULE Spec2Model ----
(***************************************************************************)
(* The tourism planner's orchestration pipeline                            *)
(* (TourismOrchestrator.process_query and the clients it calls) as a state *)
(* machine.  Python values are tagged records, Python strings whose        *)
(* characters the code inspects are sequences of one-character strings,    *)
(* and every external call draws its outcome from a small set.             *)
(***************************************************************************)
EXTENDS Integers, Sequences, FiniteSets, TLC

VARIABLES pc, user_input, search_radius, max_places, query_analysis,
          place_name, intents, days, is_valid, geo_data, weather_data,
          places_data, suggestion, result, calls, exc,
          client_call, history, session_state, page, script

vars == <<pc, user_input, search_radius, max_places, query_analysis,
          place_name, intents, days, is_valid, geo_data, weather_data,
          places_data, suggestion, result, calls, exc,
          client_call, history, session_state, page, script>>

\* The browser session of app.py: st.session_state, what the last run of
\* the script put on the page, and the script runs so far.
session == <<session_state, page, script>>

\* What lies outside one call of process_query: a client method called on
\* its own (its arguments and what it returned), the record of an
\* earlier call of process_query kept to compare a later one with, and the
\* session of the presentation layer.
aux == <<client_call, history, session>>

----------------------------------------------------------------------------
(* Python values *)

PyNone == [t |-> "None"]
PyStr(s) == [t |-> "str", v |-> s]
PyBool(b) == [t |-> "bool", v |-> b]
PyInt(n) == [t |-> "int", v |-> n]
\* A list of strings the code only tests membership of: the set of its items.
PyList(s) == [t |-> "list", v |-> s]
PyDict(d) == [t |-> "dict", v |-> d]
\* A string the code passes on or compares whole, never character by character.
PyAtom(a) == [t |-> "atom", v |-> a]
\* An f-string: its template and the values formatted into it.
FStr(tmpl, args) == [t |-> "fstr", tmpl |-> tmpl, args |-> args]

\* A key a dict does not hold, and a local not yet assigned.
Missing == [t |-> "missing"]

IsNone(x) == x.t = "None"

\* bool(x), as `not x` and `if x:` evaluate it.
Truthy(x) ==
    CASE x.t = "None" -> FALSE
      [] x.t = "str" -> Len(x.v) > 0
      [] x.t = "bool" -> x.v
      [] x.t = "int" -> x.v # 0
      [] x.t = "list" -> x.v # {}
      [] x.t = "dict" -> DOMAIN x.v # {}
      [] x.t = "atom" -> x.v # ""
      [] OTHER -> TRUE

\* d.get(k, default) on a dict held as a function from its keys.
Get(d, k, default) == IF k \in DOMAIN d THEN d[k] ELSE default

\* d with d[k] = x assigned (the key is added when absent).
Put(d, k, x) == [j \in DOMAIN d \cup {k} |-> IF j = k THEN x ELSE d[j]]

EmptyDict == [k \in {} |-> PyNone]

----------------------------------------------------------------------------
(* Python strings, character by character *)

UpperChars == <<"A","B","C","D","E","F","G","H","I","J","K","L","M",
                "N","O","P","Q","R","S","T","U","V","W","X","Y","Z">>
LowerChars == <<"a","b","c","d","e","f","g","h","i","j","k","l","m",
                "n","o","p","q","r","s","t","u","v","w","x","y","z">>

IsUpper(c) == \E i \in DOMAIN UpperChars : UpperChars[i] = c
IsLower(c) == \E i \in DOMAIN LowerChars : LowerChars[i] = c
IsLetter(c) == IsUpper(c) \/ IsLower(c)
IsSpace(c) == c \in {" ", "\t", "\n"}

LowerChar(c) ==
    IF IsUpper(c)
    THEN LowerChars[CHOOSE i \in DOMAIN UpperChars : UpperChars[i] = c]
    ELSE c

\* str.lower()
Lower(s) == [i \in 1..Len(s) |-> LowerChar(s[i])]

\* str.strip(chars): the characters of `chars` removed from both ends.
Span(s, keep) ==
    IF keep = {} THEN <<>>
    ELSE SubSeq(s, CHOOSE i \in keep : \A j \in keep : i <= j,
                   CHOOSE i \in keep : \A j \in keep : i >= j)

StripChars(s, chars) == Span(s, {i \in 1..Len(s) : s[i] \notin chars})

\* str.strip()
Strip(s) == StripChars(s, {" ", "\t", "\n"})

\* str.split(): the maximal runs of non-whitespace characters, in order.
\* The first whitespace at or after i, or the end of the string.
WordEnd(s, i) ==
    IF \E j \in i..Len(s) : IsSpace(s[j])
    THEN CHOOSE j \in i..Len(s) :
            IsSpace(s[j]) /\ \A k \in i..(j - 1) : ~IsSpace(s[k])
    ELSE Len(s) + 1

RECURSIVE SplitFrom(_, _)
SplitFrom(s, i) ==
    IF i > Len(s) THEN <<>>
    ELSE IF IsSpace(s[i]) THEN SplitFrom(s, i + 1)
    ELSE <<SubSeq(s, i, WordEnd(s, i) - 1)>> \o SplitFrom(s, WordEnd(s, i))

Split(s) == SplitFrom(s, 1)

\* ' '.join(words)
RECURSIVE Join(_)
Join(ws) ==
    IF ws = <<>> THEN <<>>
    ELSE IF Len(ws) = 1 THEN ws[1]
    ELSE ws[1] \o <<" ">> \o Join(Tail(ws))

Min(S) == CHOOSE x \in S : \A y \in S : x <= y

----------------------------------------------------------------------------
(* The regular expressions of extract_place_name, matched as re.search     *)
(* matches them under re.IGNORECASE: the leftmost start, the alternatives  *)
(* in order, the lazy group as short as the rest of the pattern allows.    *)

\* The literal w (lower case) matches s at position i, ignoring case.
KwAt(s, i, w) ==
    /\ i >= 1
    /\ i + Len(w) - 1 <= Len(s)
    /\ \A k \in 1..Len(w) : LowerChar(s[i + k - 1]) = w[k]

\* The first position at or after e that holds no whitespace.
WsEnd(s, e) ==
    Min({j \in e..(Len(s) + 1) : j = Len(s) + 1 \/ ~IsSpace(s[j])})

\* s[h..k-1] is whitespace only.
AllSpace(s, h, k) == \A j \in h..(k - 1) : IsSpace(s[j])

\* `$`: the end of the string, or just before its final newline.
AtEnd(s, h) == h = Len(s) + 1 \/ (h = Len(s) /\ s[h] = "\n")

\* `\s*[...]` with the punctuation of `punct`.
PunctAt(s, h, punct) ==
    \E k \in h..Len(s) : AllSpace(s, h, k) /\ s[k] \in punct

\* `\s+(?:w1|w2|...)`.
SpacedKwAt(s, h, words) ==
    \E k \in (h + 1)..Len(s) :
        AllSpace(s, h, k) /\ \E w \in words : KwAt(s, k, w)

\* `([A-Z][a-zA-Z\s]+?)` starting at g, followed by a terminator: the
\* positions h in T the group may end before, the least being the match.
GroupEnds(s, g, T) ==
    IF g >= 1 /\ g <= Len(s) /\ IsLetter(s[g])
    THEN {h \in (g + 2)..(Len(s) + 1) :
            /\ h \in T
            /\ \A j \in (g + 1)..(h - 1) : IsLetter(s[j]) \/ IsSpace(s[j])}
    ELSE {}

\* The group from g to just before the least of its possible ends, when
\* whitespace separates g from the keyword that ends before e.
GroupSpan(e, g, ends) ==
    IF g > e /\ ends # {} THEN {<<g, Min(ends)>>} ELSE {}

\* `\s+` and the group after a keyword that ends before e: {} for no
\* match, else {<<start, end>>} of the group.
GroupAfter(s, e, T) ==
    GroupSpan(e, WsEnd(s, e), GroupEnds(s, WsEnd(s, e), T))

\* The literals of the four patterns, in lower case.
kw ==
    [ going_to |-> <<"g","o","i","n","g"," ","t","o">>,
      visit |-> <<"v","i","s","i","t">>,
      plan |-> <<"p","l","a","n">>,
      trip_to |-> <<"t","r","i","p"," ","t","o">>,
      travel_to |-> <<"t","r","a","v","e","l"," ","t","o">>,
      in |-> <<"i","n">>,
      let |-> <<"l","e","t">>,
      what |-> <<"w","h","a","t">>,
      and |-> <<"a","n","d">>,
      for |-> <<"f","o","r">>,
      weather_in |-> <<"w","e","a","t","h","e","r"," ","i","n">>,
      places_in |-> <<"p","l","a","c","e","s"," ","i","n">>,
      places_to_visit_in |-> <<"p","l","a","c","e","s"," ","t","o"," ","v","i","s","i","t"," ","i","n">>,
      weather |-> <<"w","e","a","t","h","e","r">>,
      places |-> <<"p","l","a","c","e","s">>,
      trip |-> <<"t","r","i","p">>,
      itinerary |-> <<"i","t","i","n","e","r","a","r","y">> ]

\* The alternatives of a pattern's head that match at i, each with the
\* position it ends before and its place in the order re tries them.
Heads1(s, i) ==
    (IF KwAt(s, i, kw.going_to) THEN {[rank |-> 1, e |-> i + 8]} ELSE {})
    \cup (IF KwAt(s, i, kw.visit) THEN {[rank |-> 2, e |-> i + 5]} ELSE {})
    \cup {[rank |-> 3, e |-> k + 7] :
            k \in {j \in (i + 4)..Len(s) :
                     /\ KwAt(s, i, kw.plan)
                     /\ KwAt(s, j, kw.trip_to)
                     /\ \A m \in (i + 4)..(j - 1) : s[m] # "\n"}}
    \cup (IF KwAt(s, i, kw.travel_to) THEN {[rank |-> 4, e |-> i + 9]} ELSE {})
    \cup (IF KwAt(s, i, kw.in) THEN {[rank |-> 5, e |-> i + 2]} ELSE {})

Heads2(s, i) ==
    (IF KwAt(s, i, kw.weather_in) THEN {[rank |-> 1, e |-> i + 10]} ELSE {})

Heads3(s, i) ==
    (IF KwAt(s, i, kw.places_in) THEN {[rank |-> 1, e |-> i + 9]} ELSE {})
    \cup (IF KwAt(s, i, kw.places_to_visit_in) THEN {[rank |-> 2, e |-> i + 18]} ELSE {})

Term1(s) ==
    {h \in 1..(Len(s) + 1) :
        \/ PunctAt(s, h, {",", "."})
        \/ AtEnd(s, h)
        \/ SpacedKwAt(s, h, {kw.let, kw.what, kw.and, kw.for})}

Term23(s) ==
    {h \in 1..(Len(s) + 1) : PunctAt(s, h, {",", ".", "?"}) \/ AtEnd(s, h)}

Term4(s) ==
    {h \in 1..(Len(s) + 1) :
        \/ SpacedKwAt(s, h, {kw.weather})
        \/ KwAt(s, h, kw.places)
        \/ KwAt(s, h, kw.trip)
        \/ KwAt(s, h, kw.itinerary)}

\* Of the heads that match at i and let the rest match, the one re takes:
\* the earliest alternative, and of a greedy `.*` the longest.
First(ok) ==
    CHOOSE h \in ok :
        \A o \in ok : h.rank < o.rank \/ (h.rank = o.rank /\ h.e >= o.e)

\* The heads of hs after which the rest of the pattern matches.
Matching(s, hs, T) == {h \in hs : GroupAfter(s, h.e, T) # {}}

\* The group of the match whose head is the best of `ok`.
GroupOf(s, ok, T) ==
    {SubSeq(s, gh[1], gh[2] - 1) : gh \in GroupAfter(s, First(ok).e, T)}

\* The match that starts leftmost, given the starts that match at all.
LeftmostOf(s, starts, T, hit) ==
    IF hit = {} THEN {} ELSE GroupOf(s, Matching(s, starts[Min(hit)], T), T)

\* re.search of a pattern made of a head, `\s+`, the group and a
\* terminator: {} for no match, else {group(1)}.
SearchHeaded(s, starts, T) ==
    LeftmostOf(s, starts, T,
               {i \in DOMAIN starts : Matching(s, starts[i], T) # {}})

Search1(s) == SearchHeaded(s, [i \in 1..Len(s) |-> Heads1(s, i)], Term1(s))
Search2(s) == SearchHeaded(s, [i \in 1..Len(s) |-> Heads2(s, i)], Term23(s))
Search3(s) == SearchHeaded(s, [i \in 1..Len(s) |-> Heads3(s, i)], Term23(s))

\* The fourth pattern is anchored at the start of the string.
AnchoredGroup(s, ends) ==
    IF ends = {} THEN {} ELSE {SubSeq(s, 1, Min(ends) - 1)}

Search4(s) == AnchoredGroup(s, GroupEnds(s, 1, Term4(s)))

\* The four patterns in the order the loop tries them.
PatternMatches(s) == <<Search1(s), Search2(s), Search3(s), Search4(s)>>

stop_words ==
    { <<"i">>, <<"i","'","m">>, <<"g","o","i","n","g">>, <<"t","o">>,
      <<"w","h","a","t">>, <<"l","e","t">>, <<"p","l","a","n">>,
      <<"m","y">>, <<"t","r","i","p">>, <<"t","h","e">> }

\* [w for w in words if w and w[0].isupper() and w.lower() not in [...]]
IsCapitalized(w) ==
    Len(w) > 0 /\ IsUpper(w[1]) /\ Lower(w) \notin stop_words

RECURSIVE CapitalizedWords(_)
CapitalizedWords(ws) ==
    IF ws = <<>> THEN <<>>
    ELSE IF IsCapitalized(Head(ws))
    THEN <<Head(ws)>> \o CapitalizedWords(Tail(ws))
    ELSE CapitalizedWords(Tail(ws))

\* The capitalized words joined, or nothing when there is none.
FromWordsOrNothing(s, capitalized_words) ==
    IF capitalized_words # <<>> THEN Join(capitalized_words) ELSE <<>>

\* Lines 76-88: the capitalized words joined, or the whole input.
FromWords(s, capitalized_words) ==
    IF capitalized_words # <<>> THEN Join(capitalized_words) ELSE s

\* Lines 69-74: group(1).strip() of the first pattern that matches.
FirstMatch(ms) ==
    Strip(CHOOSE g \in ms[Min({k \in DOMAIN ms : ms[k] # {}})] : TRUE)

FromMatches(s, ms) ==
    IF \E k \in DOMAIN ms : ms[k] # {}
    THEN FirstMatch(ms)
    ELSE FromWords(s, CapitalizedWords(Split(s)))

\* TourismOrchestrator.extract_place_name
extract_place_name(s) == FromMatches(s, PatternMatches(s))


----------------------------------------------------------------------------
(* Bounds and the inputs drawn from them *)

\* The largest number of intents in one LLM reply.
MaxIntents == 2
\* The largest number of candidates in one geocoding response.
MaxCandidates == 2

DEFAULT_SEARCH_RADIUS == 30000
DEFAULT_MAX_PLACES == 8

s_null == <<"n","u","l","l">>
s_None == <<"N","o","n","e">>
s_Paris == <<"P","a","r","i","s">>
s_Bangalore == <<"B","a","n","g","a","l","o","r","e">>

\* Lines 160 and 175.
greeting_words ==
    { <<"h","i">>,
      <<"h","e","l","l","o">>,
      <<"h","e","y">>,
      <<"t","h","a","n","k","s">>,
      <<"t","h","a","n","k"," ","y","o","u">>,
      <<"b","y","e">>,
      <<"g","o","o","d","b","y","e">> }

\* The queries a user types.
UserInputs ==
    { <<"h","i">>,
      <<"T","h","a","n","k","s"," ">>,
      <<"W","e","a","t","h","e","r"," ","i","n"," ","P","a","r","i","s">>,
      <<"b","e","n","g","a","l","u","r","u","r","u"," ","t","r","i","p">>,
      <<"I"," ","w","a","n","t"," ","t","o"," ","t","r","a","v","e","l">> }

\* The sidebar's settings: the defaults, and a narrower search.
SearchSettings ==
    { [radius |-> DEFAULT_SEARCH_RADIUS, limit |-> DEFAULT_MAX_PLACES],
      [radius |-> 5000, limit |-> 5] }

IntentNames == {"weather", "places", "itinerary", "tips", "greeting", "general"}

----------------------------------------------------------------------------
(* Stage 1: understand_query *)

\* The text of an LLM reply, as the pieces the fence handling tells apart:
\* the marker that opens a json code block, the bare code-block marker (a
\* substring of the former), prose, and a JSON document.
FenceJson == [k |-> "fence_json"]
Fence == [k |-> "fence"]
Prose == [k |-> "text"]
JsonText(x) == [k |-> "json", v |-> x]

\* sub in content, for a fence marker.
HasMarker(content, marks) == \E i \in DOMAIN content : content[i].k \in marks

\* content.split(marker): the pieces between the markers, in order.
RECURSIVE SplitOn(_, _)
SplitOn(content, marks) ==
    IF ~HasMarker(content, marks) THEN <<content>>
    ELSE <<SubSeq(content, 1,
                  Min({i \in DOMAIN content : content[i].k \in marks}) - 1)>>
         \o SplitOn(SubSeq(content,
                           Min({i \in DOMAIN content : content[i].k \in marks}) + 1,
                           Len(content)),
                    marks)

\* Lines 135-138: the JSON text taken out of a fenced code block.
StripFences(content) ==
    IF HasMarker(content, {"fence_json"})
    THEN SplitOn(SplitOn(content, {"fence_json"})[2], {"fence", "fence_json"})[1]
    ELSE IF HasMarker(content, {"fence"})
    THEN SplitOn(SplitOn(content, {"fence"})[2], {"fence"})[1]
    ELSE content

\* json.loads: the value of a text that is one JSON document, else an error.
JSONDecodeError == [t |-> "error", v |-> "JSONDecodeError"]
json_loads(content) ==
    IF Len(content) = 1 /\ content[1].k = "json" THEN content[1].v
    ELSE JSONDecodeError

\* FallbackIntent calling every query valid.
FallbackIntentAlwaysValid(place, is_greeting) ==
    [ place |-> IF ~is_greeting THEN PyStr(place) ELSE PyNone,
      intents |-> IF is_greeting THEN PyList({"greeting"})
                  ELSE PyList({"weather", "places"}),
      days |-> PyInt(1),
      is_valid_query |-> PyBool(TRUE) ]

\* Lines 157-168 and 172-183: the fallback both except clauses run.
FallbackIntent(place, is_greeting) ==
    [ place |-> IF ~is_greeting THEN PyStr(place) ELSE PyNone,
      intents |-> IF is_greeting THEN PyList({"greeting"})
                  ELSE PyList({"weather", "places"}),
      days |-> PyInt(1),
      is_valid_query |-> PyBool(~is_greeting /\ Len(place) > 0) ]

Fallback(input) ==
    FallbackIntent(extract_place_name(input),
                   Strip(Lower(input)) \in greeting_words)

\* Lines 142-144: result.get('place') in [None, 'null', 'None', ''].
IsNullish(p) == IsNone(p) \/ (p.t = "str" /\ p.v \in {s_null, s_None, <<>>})

NormalizePlace(d) ==
    IF IsNullish(Get(d, "place", PyNone)) THEN Put(d, "place", PyNone) ELSE d

\* TourismOrchestrator.understand_query, given what the LLM call did:
\* raised, or returned a message whose content is None or a text.
\* Lines 140-152 and the except clauses: a document that is no object
\* has no get() (AttributeError), an unreadable one is a JSONDecodeError.
FromParsed(input, parsed) ==
    IF parsed.t # "dict" THEN Fallback(input) ELSE NormalizePlace(parsed.v)

understand_query(input, llm) ==
    IF llm.kind = "raise" \/ IsNone(llm.content) THEN Fallback(input)
    ELSE FromParsed(input, json_loads(StripFences(llm.content.v)))

\* The structured objects an LLM reply may hold: any of the four fields
\* may be missing or null.
PlaceValues == {Missing, PyNone, PyStr(<<>>), PyStr(s_null), PyStr(s_None),
                PyStr(s_Paris)}
IntentsValues ==
    {Missing, PyNone}
    \cup {PyList(S) : S \in {X \in SUBSET IntentNames : Cardinality(X) <= MaxIntents}}
DaysValues == {Missing, PyNone, PyInt(0), PyInt(3)}
ValidValues == {Missing, PyNone, PyBool(TRUE), PyBool(FALSE)}

\* The dict of the fields that are not missing.
Present(all) == [k \in {j \in DOMAIN all : all[j].t # "missing"} |-> all[k]]

IntentObject(p, i, d, v) ==
    Present([place |-> p, intents |-> i, days |-> d, is_valid_query |-> v])

IntentObjects ==
    {PyDict(IntentObject(p, i, d, v)) :
        p \in PlaceValues, i \in IntentsValues, d \in DaysValues, v \in ValidValues}

\* The JSON documents a reply may hold: an object, or something else.
JsonValues == IntentObjects \cup {PyNone, PyList({})}

\* A well-formed reply, used where the wrapping is what varies.
WeatherInParis ==
    PyDict(IntentObject(PyStr(s_Paris), PyList({"weather"}), PyInt(1),
                        PyBool(TRUE)))

\* The ways a reply wraps a JSON document in a code block.
Fenced(x) ==
    { <<FenceJson, JsonText(x), Fence>>,
      <<Fence, JsonText(x), Fence>>,
      <<Prose, FenceJson, JsonText(x), Fence, Prose>> }

\* Replies json.loads cannot read: prose, prose around an unfenced
\* document, an empty code block.
Unparseable ==
    { <<Prose>>,
      <<Prose, JsonText(WeatherInParis)>>,
      <<FenceJson, Fence>> }

\* What the intent-understanding call does: raises, or returns a message
\* whose content is None, a bare JSON document, a fenced one, or a text
\* that is no JSON.
IntentLLMOutcomes ==
    {[kind |-> "raise"], [kind |-> "reply", content |-> PyNone]}
    \cup {[kind |-> "reply", content |-> PyStr(<<JsonText(x)>>)] : x \in JsonValues}
    \cup {[kind |-> "reply", content |-> PyStr(c)] :
            c \in Unparseable \cup Fenced(WeatherInParis) \cup Fenced(PyNone)}

----------------------------------------------------------------------------
(* The HTTP clients *)

\* What an HTTP request does: times out, fails (a transport error, an
\* error status, a body that is no JSON), or returns a JSON body.
HttpFailures == {[kind |-> "timeout"], [kind |-> "request_error"]}

\* float(x) of a JSON string: its number, or ValueError for no numeral.
Numeral(n) == [num |-> TRUE, val |-> n]
NotANumeral == [num |-> FALSE]

PreferredTypes == {"city", "town", "village", "municipality", "administrative"}

\* Lines 42-46 and 54-58: the result built from one candidate; a missing
\* key (KeyError) or a non-numeric coordinate (ValueError) lands in the
\* except clause, which returns None.
CandidateResult(item) ==
    IF /\ {"lat", "lon", "display_name"} \subseteq DOMAIN item
       /\ item["lat"].num
       /\ item["lon"].num
    THEN PyDict([lat |-> item["lat"].val, lon |-> item["lon"].val,
                 display_name |-> item["display_name"]])
    ELSE PyNone

\* SelectCandidate taking the first candidate whatever its type.
SelectFirstCandidate(data, preferred) ==
    IF data = <<>> THEN PyNone ELSE CandidateResult(data[1])

\* GeocodingAgent.get_coordinates, given what the request did.
\* Lines 38-66: the first candidate of a preferred type, else the first.
SelectCandidate(data, preferred) ==
    IF data = <<>> THEN PyNone
    ELSE CandidateResult(data[IF preferred # {} THEN Min(preferred) ELSE 1])

get_coordinates(http) ==
    IF http.kind # "json" THEN PyNone
    ELSE SelectCandidate(http.data,
                         {i \in DOMAIN http.data :
                            /\ "type" \in DOMAIN http.data[i]
                            /\ http.data[i]["type"] \in PreferredTypes})

\* The candidates of a geocoding response: coordinates are WGS84 degrees,
\* as the service gives them; a candidate may lack a field or carry a
\* coordinate that is no numeral.
Candidates ==
    { [type |-> "city", lat |-> Numeral(48), lon |-> Numeral(2),
       display_name |-> PyAtom("Paris, Ile-de-France, France")],
      [type |-> "attraction", lat |-> Numeral(-33), lon |-> Numeral(151),
       display_name |-> PyAtom("Paris Cafe, Sydney, Australia")],
      [type |-> "town", lon |-> Numeral(2),
       display_name |-> PyAtom("Paris, Texas")],
      [lat |-> NotANumeral, lon |-> Numeral(2),
       display_name |-> PyAtom("Paris")] }

RECURSIVE SeqsUpTo(_, _)
SeqsUpTo(S, n) ==
    IF n = 0 THEN {<<>>}
    ELSE SeqsUpTo(S, n - 1)
         \cup {Append(q, x) : q \in {r \in SeqsUpTo(S, n - 1) : Len(r) = n - 1},
                               x \in S}

GeocodingOutcomes ==
    HttpFailures
    \cup {[kind |-> "json", data |-> d] : d \in SeqsUpTo(Candidates, MaxCandidates)}

\* get_weather handing an error object back where the code returns None.
get_weather_error_object(http) ==
    IF http.kind # "json" THEN PyDict([error |-> http.kind]) ELSE http.data

\* WeatherAgent.get_weather, given what the request did.
get_weather(http) ==
    IF http.kind # "json" THEN PyNone ELSE http.data

\* The weather-code table of config.py; the icon that ends each label is
\* left out.
WEATHER_CODES ==
    ( 0 :> "Clear sky" @@ 1 :> "Mainly clear" @@ 2 :> "Partly cloudy"
      @@ 3 :> "Overcast" @@ 45 :> "Foggy" @@ 48 :> "Depositing rime fog"
      @@ 51 :> "Light drizzle" @@ 53 :> "Moderate drizzle"
      @@ 55 :> "Dense drizzle" @@ 56 :> "Light freezing drizzle"
      @@ 57 :> "Dense freezing drizzle" @@ 61 :> "Slight rain"
      @@ 63 :> "Moderate rain" @@ 65 :> "Heavy rain"
      @@ 66 :> "Light freezing rain" @@ 67 :> "Heavy freezing rain"
      @@ 71 :> "Slight snow" @@ 73 :> "Moderate snow" @@ 75 :> "Heavy snow"
      @@ 77 :> "Snow grains" @@ 80 :> "Slight rain showers"
      @@ 81 :> "Moderate rain showers" @@ 82 :> "Violent rain showers"
      @@ 85 :> "Slight snow showers" @@ 86 :> "Heavy snow showers"
      @@ 95 :> "Thunderstorm" @@ 96 :> "Thunderstorm with slight hail"
      @@ 99 :> "Thunderstorm with heavy hail" )

\* str(n) of an integer, as an f-string formats it.
Digits == <<"0", "1", "2", "3", "4", "5", "6", "7", "8", "9">>

RECURSIVE NatStr(_)
NatStr(n) ==
    IF n < 10 THEN <<Digits[n + 1]>>
    ELSE NatStr(n \div 10) \o <<Digits[(n % 10) + 1]>>

IntStr(n) == IF n < 0 THEN <<"-">> \o NatStr(0 - n) ELSE NatStr(n)

\* get_weather_description answering a bare "Unknown" for a code outside
\* the table.
get_weather_description_bare(weather_code) ==
    IF weather_code \in DOMAIN WEATHER_CODES
    THEN PyAtom(WEATHER_CODES[weather_code])
    ELSE PyStr(<<"U","n","k","n","o","w","n">>)

\* WeatherAgent.get_weather_description:
\* WEATHER_CODES.get(weather_code, f"Unknown ({weather_code})")
get_weather_description(weather_code) ==
    IF weather_code \in DOMAIN WEATHER_CODES
    THEN PyAtom(WEATHER_CODES[weather_code])
    ELSE PyStr(<<"U","n","k","n","o","w","n"," ","(">>
               \o IntStr(weather_code) \o <<")">>)

WeatherOutcomes ==
    HttpFailures
    \cup { [kind |-> "json", data |-> PyDict(EmptyDict)],
           [kind |-> "json",
            data |-> PyDict([current |-> [temperature_2m |-> 21, weather_code |-> 3]])] }


\* a or b
PyOr(a, b) == IF Truthy(a) THEN a ELSE b

\* x in [a1, a2, ...] for a tag value and a list of string literals.
InAtoms(x, atoms) == x.t = "atom" /\ x.v \in atoms

\* Lines 194-211: the place built from one response element.
PlaceFrom(element, tags, center, use_center) ==
    [ name |-> Get(tags, "name", PyNone),
      type |-> PyOr(Get(tags, "tourism", PyNone),
                PyOr(Get(tags, "historic", PyNone),
                 PyOr(Get(tags, "leisure", PyNone),
                      Get(tags, "amenity", PyAtom("attraction"))))),
      tags |-> tags,
      address |-> Get(tags, "addr:street", PyAtom("")),
      website |-> Get(tags, "website", PyAtom("")),
      wikipedia |-> Get(tags, "wikipedia", PyAtom("")),
      lat |-> IF use_center THEN Get(center.v, "lat", PyNone)
              ELSE Get(element, "lat", PyNone),
      lon |-> IF use_center THEN Get(center.v, "lon", PyNone)
              ELSE Get(element, "lon", PyNone) ]

PlaceInfo(element) ==
    PlaceFrom(element,
              Get(element, "tags", EmptyDict),
              Get(element, "center", PyNone),
              /\ ~Truthy(Get(element, "lat", PyNone))
              /\ Truthy(Get(element, "center", PyNone)))

\* Lines 185-213: the named elements, the first of each name, in order.
\* tags.get('name') of an element.
NameOf(element) == Get(Get(element, "tags", EmptyDict), "name", PyNone)

\* CollectPlaces without the test on seen_names.
RECURSIVE CollectPlacesKeepingAll(_, _, _)
CollectPlacesKeepingAll(elements, places, seen_names) ==
    IF elements = <<>> THEN places
    ELSE IF Truthy(NameOf(Head(elements)))
    THEN CollectPlacesKeepingAll(Tail(elements),
                                 Append(places, PlaceInfo(Head(elements))),
                                 seen_names)
    ELSE CollectPlacesKeepingAll(Tail(elements), places, seen_names)

RECURSIVE CollectPlaces(_, _, _)
CollectPlaces(elements, places, seen_names) ==
    IF elements = <<>> THEN places
    ELSE IF Truthy(NameOf(Head(elements)))
            /\ NameOf(Head(elements)) \notin seen_names
    THEN CollectPlaces(Tail(elements),
                       Append(places, PlaceInfo(Head(elements))),
                       seen_names \cup {NameOf(Head(elements))})
    ELSE CollectPlaces(Tail(elements), places, seen_names)

\* rank without its first component, the website/wikipedia test.
rankIgnoringReferences(p) ==
    << 1,
       IF InAtoms(Get(p.tags, "tourism", PyNone),
                  {"museum", "gallery", "attraction", "viewpoint"})
       THEN 0 ELSE 1,
       IF Truthy(Get(p.tags, "historic", PyNone)) THEN 0 ELSE 1,
       IF InAtoms(Get(p.tags, "leisure", PyNone), {"park", "garden"})
       THEN 0 ELSE 1,
       Len(p.name.v) >>

\* Lines 217-225: the sort key of a place.
rank(p) ==
    << IF Truthy(Get(p.tags, "wikipedia", PyNone))
          \/ Truthy(Get(p.tags, "website", PyNone)) THEN 0 ELSE 1,
       IF InAtoms(Get(p.tags, "tourism", PyNone),
                  {"museum", "gallery", "attraction", "viewpoint"})
       THEN 0 ELSE 1,
       IF Truthy(Get(p.tags, "historic", PyNone)) THEN 0 ELSE 1,
       IF InAtoms(Get(p.tags, "leisure", PyNone), {"park", "garden"})
       THEN 0 ELSE 1,
       Len(p.name.v) >>

\* a < b for two tuples of the same length, as Python orders them.
TupleLess(a, b) ==
    \E i \in DOMAIN a :
        /\ a[i] < b[i]
        /\ \A j \in 1..(i - 1) : a[j] = b[j]

\* sorted(places, key=rank): ascending and stable.
\* x put into the sorted `front` after every place whose key is not
\* greater than its own.
InsertAt(front, x, k) ==
    SubSeq(front, 1, k) \o <<x>> \o SubSeq(front, k + 1, Len(front))

InsertByRank(front, x) ==
    InsertAt(front, x,
             Cardinality({i \in DOMAIN front :
                            ~TupleLess(rank(x), rank(front[i]))}))

RECURSIVE SortedByRank(_)
SortedByRank(places) ==
    IF places = <<>> THEN <<>>
    ELSE InsertByRank(SortedByRank(SubSeq(places, 1, Len(places) - 1)),
                      places[Len(places)])

\* s[:n]
SliceTo(s, n) ==
    IF n >= 0 THEN SubSeq(s, 1, IF n < Len(s) THEN n ELSE Len(s))
    ELSE SubSeq(s, 1, IF Len(s) + n > 0 THEN Len(s) + n ELSE 0)

\* RankAndTrim sorting without slicing.
RankAndTrimUnsliced(places, limit) ==
    IF Len(places) > limit THEN SortedByRank(places) ELSE places

\* PlacesAgent.get_tourist_places, given what the request did.
\* Lines 216-229.
RankAndTrim(places, limit) ==
    IF Len(places) > limit THEN SliceTo(SortedByRank(places), limit)
    ELSE places

get_tourist_places(http, limit) ==
    IF http.kind # "json" THEN <<>>
    ELSE RankAndTrim(CollectPlaces(Get(http.data, "elements", <<>>), <<>>, {}),
                     limit)

el_louvre ==
    [ tags |-> [name |-> PyStr(<<"L","o","u","v","r","e">>),
                tourism |-> PyAtom("museum"),
                wikipedia |-> PyAtom("fr:Louvre")],
      center |-> PyDict([lat |-> PyInt(48), lon |-> PyInt(2)]) ]
el_unnamed ==
    [ tags |-> [historic |-> PyAtom("yes")], lat |-> PyInt(48), lon |-> PyInt(2) ]

PlacesOutcomes ==
    HttpFailures
    \cup { [kind |-> "json", data |-> [elements |-> <<>>]],
           [kind |-> "json", data |-> [elements |-> <<el_unnamed>>]],
           [kind |-> "json", data |-> [elements |-> <<el_unnamed, el_louvre>>]] }

----------------------------------------------------------------------------
(* The LLM-backed text generators *)

\* What a chat completion does: raises, or returns a message whose content
\* is a text (possibly empty) or None.
LlmTexts == {<<>>, <<" ","o","k">>}
TextLLMOutcomes ==
    {[kind |-> "raise"], [kind |-> "reply", content |-> PyNone]}
    \cup {[kind |-> "reply", content |-> PyStr(s)] : s \in LlmTexts}

\* TravelInsightsAgent.get_travel_tips: the content as it is, or the
\* placeholder when the call raised.
get_travel_tips(llm) ==
    IF llm.kind = "raise"
    THEN PyAtom("Unable to generate travel tips at this time.")
    ELSE llm.content

\* TravelInsightsAgent.get_itinerary
get_itinerary(llm) ==
    IF llm.kind = "raise"
    THEN PyAtom("Unable to generate itinerary at this time.")
    ELSE llm.content

\* TourismOrchestrator._generate_summary: the stripped content, or the
\* fixed sentence about the place when anything in the try block raised
\* (content None has no strip()).
generate_summary(place, llm) ==
    IF llm.kind = "raise" \/ IsNone(llm.content)
    THEN FStr("I found comprehensive information about {place} ...", <<place>>)
    ELSE PyStr(Strip(llm.content.v))

\* TourismOrchestrator._get_spelling_suggestions: the content stripped of
\* blanks and quotes, or the place name itself when anything raised.
SpellingTexts ==
    { s_Bangalore,
      <<" ","\"","B","a","n","g","a","l","o","r","e","\"","\n">>,
      <<"'","P","a","r","i","s","'">>,
      <<"b","e","n","g","a","l","u","r","u","r","u">>,
      <<>> }
SpellingLLMOutcomes ==
    {[kind |-> "raise"], [kind |-> "reply", content |-> PyNone]}
    \cup {[kind |-> "reply", content |-> PyStr(s)] : s \in SpellingTexts}

get_spelling_suggestions(place, llm) ==
    IF llm.kind = "raise" \/ IsNone(llm.content) THEN place
    ELSE PyStr(StripChars(StripChars(Strip(llm.content.v), {"\""}), {"'"}))


----------------------------------------------------------------------------
(* TourismOrchestrator.process_query, stage by stage *)

HelpMessage == FStr("Hello! I'm your AI travel assistant. ...", <<>>)

\* Line 203, on intents that support `in`.
IsRejected(its, place, valid) ==
    "greeting" \in its.v \/ ~Truthy(place) \/ ~Truthy(valid)

\* Lines 205-209.
RejectedBundle ==
    [success |-> FALSE, is_greeting |-> TRUE, message |-> HelpMessage]

\* Lines 220 and 222: the message that offers the suggestion.
DidYouMeanMessage(place, candidate) ==
    FStr("I couldn't find a place called '{place}'. Did you mean **{suggestion}**? ...",
         <<place, candidate>>)

\* Lines 220 and 224: the message that offers none.
CheckSpellingMessage(place) ==
    FStr("I couldn't find a place called '{place}'. Please check the spelling ...",
         <<place>>)

\* The message offers every suggestion, also the place name given back.
NotFoundMessageAnySuggestion(place, candidate) ==
    IF Truthy(candidate)
    THEN DidYouMeanMessage(place, candidate)
    ELSE CheckSpellingMessage(place)

\* Lines 220-224.
NotFoundMessage(place, candidate) ==
    IF Truthy(candidate) /\ candidate # place
    THEN DidYouMeanMessage(place, candidate)
    ELSE CheckSpellingMessage(place)

\* The not-found bundle built from a copy of the rejected one.
NotFoundBundleAsGreeting(place, candidate) ==
    [success |-> FALSE, is_greeting |-> TRUE,
     message |-> NotFoundMessage(place, candidate)]

\* Lines 226-230.
NotFoundBundle(place, candidate) ==
    [success |-> FALSE, is_greeting |-> FALSE,
     message |-> NotFoundMessage(place, candidate)]

\* The bundle with the two coordinates taken from each other's field.
SuccessBundleSwapped(place, geo, its) ==
    [success |-> TRUE, place |-> place,
     display_name |-> geo.v.display_name,
     coordinates |-> [lat |-> geo.v.lon, lon |-> geo.v.lat],
     intents |-> its, data |-> EmptyDict]

\* Lines 236-243.
SuccessBundle(place, geo, its) ==
    [success |-> TRUE, place |-> place,
     display_name |-> geo.v.display_name,
     coordinates |-> [lat |-> geo.v.lat, lon |-> geo.v.lon],
     intents |-> its, data |-> EmptyDict]

\* Line 246.
WantsWeather(its) == "weather" \in its.v \/ "general" \in its.v

\* The points-of-interest test without its last disjunct.
WantsPlacesNoItinerary(its) == "places" \in its.v \/ "general" \in its.v

\* Line 253.
WantsPlaces(its) ==
    "places" \in its.v \/ "general" \in its.v \/ "itinerary" \in its.v

\* result['data'].get(key), as a condition.
HasData(data, key) ==
    /\ key \in DOMAIN data
    /\ IF key = "places" THEN data[key] # <<>> ELSE Truthy(data[key])

\* The tips test without the places condition.
WantsTipsWithoutPlaces(its, data) ==
    "tips" \in its.v /\ HasData(data, "weather")

\* Line 265.
WantsTips(its, data) ==
    "tips" \in its.v /\ HasData(data, "weather") /\ HasData(data, "places")

\* The itinerary test without the places condition.
WantsItineraryWithoutPlaces(its, data) == "itinerary" \in its.v

\* Line 275.
WantsItinerary(its, data) ==
    "itinerary" \in its.v /\ HasData(data, "places")

\* The log of the external requests of one call of process_query: which
\* service was asked and whether the request came back with a response.
Call(service, outcome) ==
    [to |-> service, answered |-> outcome.kind \in {"json", "reply"}]

Init ==
    /\ pc = "start"
    /\ user_input = Missing
    /\ search_radius = Missing
    /\ max_places = Missing
    /\ query_analysis = Missing
    /\ place_name = Missing
    /\ intents = Missing
    /\ days = Missing
    /\ is_valid = Missing
    /\ geo_data = Missing
    /\ weather_data = Missing
    /\ places_data = Missing
    /\ suggestion = Missing
    /\ result = Missing
    /\ calls = <<>>
    /\ exc = "none"
    /\ client_call = Missing
    /\ history = Missing
    /\ session_state = Missing
    /\ page = Missing
    /\ script = Missing

\* The presentation layer calls process_query(query, search_radius, max_places).
ProcessQuery(input, settings) ==
    /\ pc = "start"
    /\ pc' = "understanding"
    /\ user_input' = input
    /\ search_radius' = settings.radius
    /\ max_places' = settings.limit
    /\ UNCHANGED <<query_analysis, place_name, intents, days, is_valid,
                   geo_data, weather_data, places_data, suggestion,
                   result, calls, exc>>

\* Lines 191-209: the four reads of the analysis and the test that
\* rejects a greeting or invalid query.  `'greeting' in intents` is
\* evaluated first and raises TypeError on intents that are no container.
Analyse(qa) ==
    /\ query_analysis' = qa
    /\ place_name' = Get(qa, "place", PyNone)
    /\ intents' = Get(qa, "intents", PyList({"weather", "places"}))
    /\ days' = Get(qa, "days", PyInt(1))
    /\ is_valid' = Get(qa, "is_valid_query", PyBool(TRUE))
    /\ IF intents'.t # "list"
       THEN pc' = "raised" /\ exc' = "TypeError" /\ result' = result
       ELSE IF IsRejected(intents', place_name', is_valid')
       THEN pc' = "returned" /\ result' = RejectedBundle /\ exc' = exc
       ELSE pc' = "resolving" /\ result' = result /\ exc' = exc

\* UnderstandQuery asking the intent LLM a second time before a rejection.
UnderstandQueryAskingAgain(llm) ==
    /\ pc = "understanding"
    /\ Analyse(understand_query(user_input, llm))
    /\ calls' = IF pc' = "returned"
                THEN calls \o <<Call("llm_intent", llm), Call("llm_intent", llm)>>
                ELSE Append(calls, Call("llm_intent", llm))
    /\ UNCHANGED <<user_input, search_radius, max_places, geo_data,
                   weather_data, places_data, suggestion>>

\* Line 190 and what follows it up to the rejection.
UnderstandQuery(llm) ==
    /\ pc = "understanding"
    /\ calls' = Append(calls, Call("llm_intent", llm))
    /\ Analyse(understand_query(user_input, llm))
    /\ UNCHANGED <<user_input, search_radius, max_places, geo_data,
                   weather_data, places_data, suggestion>>

\* Lines 212-214 and 232-243: the geocoding call and the fresh bundle.
Geocode(http) ==
    /\ pc = "resolving"
    /\ geo_data' = get_coordinates(http)
    /\ calls' = Append(calls, Call("geocoding", http))
    /\ IF ~Truthy(geo_data')
       THEN pc' = "suggesting" /\ result' = result
       ELSE pc' = "weather"
            /\ result' = SuccessBundle(place_name, geo_data', intents)
    /\ UNCHANGED <<user_input, search_radius, max_places, query_analysis,
                   place_name, intents, days, is_valid, weather_data,
                   places_data, suggestion, exc>>

\* Lines 215-230: the spelling suggestion and the not-found bundle.
SuggestSpelling(llm) ==
    /\ pc = "suggesting"
    /\ pc' = "returned"
    /\ calls' = Append(calls, Call("llm_spelling", llm))
    /\ suggestion' = get_spelling_suggestions(place_name, llm)
    /\ result' = NotFoundBundle(place_name, suggestion')
    /\ UNCHANGED <<user_input, search_radius, max_places, query_analysis,
                   place_name, intents, days, is_valid, geo_data,
                   weather_data, places_data, exc>>

\* FetchWeather asking the weather service a second time when the first
\* request fails.
FetchWeatherRetrying(http) ==
    /\ pc = "weather"
    /\ WantsWeather(intents)
    /\ pc' = IF http.kind # "json" /\ Len(calls) < 3 THEN "weather" ELSE "places"
    /\ calls' = Append(calls, Call("weather", http))
    /\ weather_data' = get_weather(http)
    /\ result' = IF Truthy(weather_data')
                 THEN [result EXCEPT !.data = Put(@, "weather", weather_data')]
                 ELSE result
    /\ UNCHANGED <<user_input, search_radius, max_places, query_analysis,
                   place_name, intents, days, is_valid, geo_data,
                   places_data, suggestion, exc>>

\* Lines 246-251.
FetchWeather(http) ==
    /\ pc = "weather"
    /\ WantsWeather(intents)
    /\ pc' = "places"
    /\ calls' = Append(calls, Call("weather", http))
    /\ weather_data' = get_weather(http)
    /\ result' = IF Truthy(weather_data')
                 THEN [result EXCEPT !.data = Put(@, "weather", weather_data')]
                 ELSE result
    /\ UNCHANGED <<user_input, search_radius, max_places, query_analysis,
                   place_name, intents, days, is_valid, geo_data,
                   places_data, suggestion, exc>>

SkipWeather ==
    /\ pc = "weather"
    /\ ~WantsWeather(intents)
    /\ pc' = "places"
    /\ UNCHANGED <<user_input, search_radius, max_places, query_analysis,
                   place_name, intents, days, is_valid, geo_data,
                   weather_data, places_data, suggestion, result,
                   calls, exc>>

\* Lines 253-263.
FetchPlaces(http) ==
    /\ pc = "places"
    /\ WantsPlaces(intents)
    /\ pc' = "tips"
    /\ calls' = Append(calls, Call("places", http))
    /\ places_data' = get_tourist_places(http, max_places)
    /\ result' = IF places_data' # <<>>
                 THEN [result EXCEPT !.data = Put(@, "places", places_data')]
                 ELSE result
    /\ UNCHANGED <<user_input, search_radius, max_places, query_analysis,
                   place_name, intents, days, is_valid, geo_data,
                   weather_data, suggestion, exc>>

SkipPlaces ==
    /\ pc = "places"
    /\ ~WantsPlaces(intents)
    /\ pc' = "tips"
    /\ UNCHANGED <<user_input, search_radius, max_places, query_analysis,
                   place_name, intents, days, is_valid, geo_data,
                   weather_data, places_data, suggestion, result,
                   calls, exc>>

\* Lines 265-273.
\* GenerateTips leaving the tips key out when the call fails.
GenerateTipsIfAnswered(llm) ==
    /\ pc = "tips"
    /\ WantsTips(intents, result.data)
    /\ pc' = "itinerary"
    /\ calls' = Append(calls, Call("llm_tips", llm))
    /\ result' = IF llm.kind = "reply"
                 THEN [result EXCEPT !.data = Put(@, "tips", get_travel_tips(llm))]
                 ELSE result
    /\ UNCHANGED <<user_input, search_radius, max_places, query_analysis,
                   place_name, intents, days, is_valid, geo_data,
                   weather_data, places_data, suggestion, exc>>

GenerateTips(llm) ==
    /\ pc = "tips"
    /\ WantsTips(intents, result.data)
    /\ pc' = "itinerary"
    /\ calls' = Append(calls, Call("llm_tips", llm))
    /\ result' = [result EXCEPT !.data = Put(@, "tips", get_travel_tips(llm))]
    /\ UNCHANGED <<user_input, search_radius, max_places, query_analysis,
                   place_name, intents, days, is_valid, geo_data,
                   weather_data, places_data, suggestion, exc>>

SkipTips ==
    /\ pc = "tips"
    /\ ~WantsTips(intents, result.data)
    /\ pc' = "itinerary"
    /\ UNCHANGED <<user_input, search_radius, max_places, query_analysis,
                   place_name, intents, days, is_valid, geo_data,
                   weather_data, places_data, suggestion, result,
                   calls, exc>>

\* Lines 275-283.
GenerateItinerary(llm) ==
    /\ pc = "itinerary"
    /\ WantsItinerary(intents, result.data)
    /\ pc' = "summarizing"
    /\ calls' = Append(calls, Call("llm_itinerary", llm))
    /\ result' = [result EXCEPT !.data = Put(@, "itinerary", get_itinerary(llm))]
    /\ UNCHANGED <<user_input, search_radius, max_places, query_analysis,
                   place_name, intents, days, is_valid, geo_data,
                   weather_data, places_data, suggestion, exc>>

SkipItinerary ==
    /\ pc = "itinerary"
    /\ ~WantsItinerary(intents, result.data)
    /\ pc' = "summarizing"
    /\ UNCHANGED <<user_input, search_radius, max_places, query_analysis,
                   place_name, intents, days, is_valid, geo_data,
                   weather_data, places_data, suggestion, result,
                   calls, exc>>

\* Lines 285-295.
Summarize(llm) ==
    /\ pc = "summarizing"
    /\ pc' = "returned"
    /\ calls' = Append(calls, Call("llm_summary", llm))
    /\ result' = Put(result, "summary", generate_summary(place_name, llm))
    /\ UNCHANGED <<user_input, search_radius, max_places, query_analysis,
                   place_name, intents, days, is_valid, geo_data,
                   weather_data, places_data, suggestion, exc>>

\* The call is over (a bundle returned, or an exception left it); the
\* orchestrator keeps nothing of it.
Return ==
    /\ pc \in {"returned", "raised"}
    /\ pc' = "start"
    /\ user_input' = Missing
    /\ search_radius' = Missing
    /\ max_places' = Missing
    /\ query_analysis' = Missing
    /\ place_name' = Missing
    /\ intents' = Missing
    /\ days' = Missing
    /\ is_valid' = Missing
    /\ geo_data' = Missing
    /\ weather_data' = Missing
    /\ places_data' = Missing
    /\ suggestion' = Missing
    /\ result' = Missing
    /\ calls' = <<>>
    /\ exc' = "none"

Next ==
    \/ \E input \in UserInputs, settings \in SearchSettings :
         ProcessQuery(input, settings) /\ UNCHANGED aux
    \/ \E llm \in IntentLLMOutcomes : UnderstandQuery(llm) /\ UNCHANGED aux
    \/ \E http \in GeocodingOutcomes : Geocode(http) /\ UNCHANGED aux
    \/ \E llm \in SpellingLLMOutcomes : SuggestSpelling(llm) /\ UNCHANGED aux
    \/ \E http \in WeatherOutcomes : FetchWeather(http) /\ UNCHANGED aux
    \/ SkipWeather /\ UNCHANGED aux
    \/ \E http \in PlacesOutcomes : FetchPlaces(http) /\ UNCHANGED aux
    \/ SkipPlaces /\ UNCHANGED aux
    \/ \E llm \in TextLLMOutcomes : GenerateTips(llm) /\ UNCHANGED aux
    \/ SkipTips /\ UNCHANGED aux
    \/ \E llm \in TextLLMOutcomes : GenerateItinerary(llm) /\ UNCHANGED aux
    \/ SkipItinerary /\ UNCHANGED aux
    \/ \E llm \in TextLLMOutcomes : Summarize(llm) /\ UNCHANGED aux
    \/ Return /\ UNCHANGED aux

Spec == Init /\ [][Next]_vars

----------------------------------------------------------------------------
(* The claims about process_query *)

\* A request to `service` is in the log of this call of process_query.
Called(service) == \E i \in DOMAIN calls : calls[i].to = service

\* The number of requests to `service` in the log.
Requests(service) ==
    Cardinality({i \in DOMAIN calls : calls[i].to = service})

\* A request to `service` ended without a response: it timed out, failed
\* in transport, or raised.
Unanswered(service) ==
    \E i \in DOMAIN calls : calls[i].to = service /\ ~calls[i].answered

\* The user input of the running call is one of the greeting words.
GreetingInput ==
    pc # "start" /\ Strip(Lower(user_input)) \in greeting_words

\* The geocoding client was asked and resolved / did not resolve the place.
Resolved == Called("geocoding") /\ Truthy(geo_data)
NotFound == Called("geocoding") /\ ~Truthy(geo_data)

\* process_query has returned the bundle of a resolved place.
ReturnedResolved == pc = "returned" /\ Resolved

\* The weather / points-of-interest fetch of this run returned data.
WeatherReturnedData == Called("weather") /\ Truthy(weather_data)
PlacesReturnedData == Called("places") /\ places_data # <<>>

\* C1: for a user input that, lower-cased and trimmed, is a greeting word,
\* the bundle process_query returns is the rejected one (success false,
\* is_greeting true, the fixed help message), whatever the settings and
\* whatever the intent-understanding call replied or raised.
C1_GreetingInputRejected ==
    (pc = "returned" /\ GreetingInput) => result = RejectedBundle

\* The understood intent is one the spec rejects: greeting among its
\* intents, no place, or marked invalid.
UnderstoodAsRejected ==
    \/ /\ Get(query_analysis, "intents", PyNone).t = "list"
       /\ "greeting" \in Get(query_analysis, "intents", PyNone).v
    \/ ~Truthy(Get(query_analysis, "place", PyNone))
    \/ ~Truthy(Get(query_analysis, "is_valid_query", PyBool(TRUE)))

\* C2: once the query is understood, process_query has returned the
\* rejected bundle without geocoding exactly when the understood intent
\* has greeting among its intents, no place, or is marked invalid; in
\* every other case it goes on to the geocoding call.
C2_RejectedExactlyWhen ==
    pc \notin {"start", "understanding"} =>
        IF UnderstoodAsRejected
        THEN pc = "returned" /\ result = RejectedBundle /\ ~Called("geocoding")
        ELSE pc = "resolving" \/ Called("geocoding")

C4_NotFound ==
    NotFound =>
        /\ pc \in {"suggesting", "returned"}
        /\ \A service \in {"weather", "places", "llm_tips", "llm_itinerary",
                           "llm_summary"} : ~Called(service)
        /\ Requests("llm_spelling") = IF pc = "returned" THEN 1 ELSE 0
        /\ pc = "returned" =>
              /\ result.success = FALSE
              /\ result.is_greeting = FALSE
              /\ "message" \in DOMAIN result
              /\ result.message.t = "fstr"

C4_Witness ==
    /\ pc = "returned"
    /\ NotFound
    /\ Called("llm_spelling")
    /\ result.success = FALSE

\* C5 as the spec states it: whenever geocoding fails, the bundle has
\* success false and its message has the 'Did you mean' clause, naming a
\* candidate that differs from the place name looked up.
C5_AlwaysDidYouMean ==
    (pc = "returned" /\ NotFound) =>
        /\ result.success = FALSE
        /\ \E candidate \in {suggestion} \ {place_name} :
              result.message = DidYouMeanMessage(place_name, candidate)

\* C5, amended: whenever geocoding fails, the bundle has success false;
\* its message has the 'Did you mean' clause naming the suggestion when
\* the suggestion is not empty and differs from the place name, and the
\* check-the-spelling hint otherwise, as it is whenever the suggestion
\* request got no response.
C5_DidYouMeanWhenDifferent ==
    (pc = "returned" /\ NotFound) =>
        /\ result.success = FALSE
        /\ result.message =
              IF Truthy(suggestion) /\ suggestion # place_name
              THEN DidYouMeanMessage(place_name, suggestion)
              ELSE CheckSpellingMessage(place_name)
        /\ Unanswered("llm_spelling") =>
              result.message = CheckSpellingMessage(place_name)

C5_Witness ==
    /\ pc = "returned"
    /\ NotFound
    /\ place_name = PyStr(<<"b","e","n","g","a","l","u","r","u","r","u">>)
    /\ result.message = DidYouMeanMessage(place_name, PyStr(s_Bangalore))

\* The stages of process_query after the weather step / the
\* points-of-interest step / the tips step / the itinerary step.
AfterWeather ==
    pc \in {"places", "tips", "itinerary", "summarizing"} \/ ReturnedResolved
AfterPlaces == pc \in {"tips", "itinerary", "summarizing"} \/ ReturnedResolved
AfterTips == pc \in {"itinerary", "summarizing"} \/ ReturnedResolved
AfterItinerary == pc = "summarizing" \/ ReturnedResolved

\* C6: the weather client is called exactly when the intents include
\* weather or general, the points-of-interest client exactly when they
\* include places, general or itinerary, each once.
C6_FetchesFollowIntents ==
    /\ AfterWeather =>
          Requests("weather") =
              IF intents.v \cap {"weather", "general"} # {} THEN 1 ELSE 0
    /\ AfterPlaces =>
          Requests("places") =
              IF intents.v \cap {"places", "general", "itinerary"} # {}
              THEN 1 ELSE 0

C6_Witness ==
    /\ ReturnedResolved
    /\ intents.v = {"itinerary"}
    /\ Called("places")
    /\ ~Called("weather")

\* C7: travel tips are requested exactly when the intents include tips
\* and both the weather fetch and the points-of-interest fetch of the run
\* returned data; in every other run result.data has no tips key.
C7_TipsExactlyWhen ==
    AfterTips =>
        IF "tips" \in intents.v /\ WeatherReturnedData /\ PlacesReturnedData
        THEN Requests("llm_tips") = 1 /\ "tips" \in DOMAIN result.data
        ELSE ~Called("llm_tips") /\ "tips" \notin DOMAIN result.data

C7_Witness ==
    /\ ReturnedResolved
    /\ Called("llm_tips")
    /\ "tips" \in DOMAIN result.data

\* C8: an itinerary is requested exactly when the intents include
\* itinerary and the points-of-interest fetch returned data; when the
\* intents exclude itinerary, result.data has no itinerary key.
C8_ItineraryExactlyWhen ==
    AfterItinerary =>
        /\ Requests("llm_itinerary") =
              IF "itinerary" \in intents.v /\ PlacesReturnedData THEN 1 ELSE 0
        /\ "itinerary" \in DOMAIN result.data <=> Called("llm_itinerary")
        /\ "itinerary" \notin intents.v =>
              "itinerary" \notin DOMAIN result.data

C8_Witness ==
    /\ ReturnedResolved
    /\ Called("llm_itinerary")
    /\ "itinerary" \in DOMAIN result.data

\* The request behind each category of result.data.
CategoryCall ==
    [weather |-> "weather", places |-> "places", tips |-> "llm_tips",
     itinerary |-> "llm_itinerary"]

\* C9 as the spec states it: once geocoding has succeeded the bundle has
\* success true, and every category whose request failed has no key in
\* result.data.
C9_FailedCategoryOmitted ==
    Resolved =>
        /\ result.success = TRUE
        /\ \A category \in DOMAIN CategoryCall :
              Unanswered(CategoryCall[category]) =>
                  category \notin DOMAIN result.data

\* C9, amended: once geocoding has succeeded the bundle has success true
\* whichever later request fails; a failed weather or points-of-interest
\* request leaves no key in result.data, a failed tips or itinerary
\* request leaves its key holding the insights client's placeholder text.
C9_FailedCategoryDegrades ==
    Resolved =>
        /\ result.success = TRUE
        /\ Unanswered("weather") => "weather" \notin DOMAIN result.data
        /\ Unanswered("places") => "places" \notin DOMAIN result.data
        /\ Unanswered("llm_tips") =>
              /\ "tips" \in DOMAIN result.data
              /\ result.data["tips"] =
                    PyAtom("Unable to generate travel tips at this time.")
        /\ Unanswered("llm_itinerary") =>
              /\ "itinerary" \in DOMAIN result.data
              /\ result.data["itinerary"] =
                    PyAtom("Unable to generate itinerary at this time.")

C9_Witness ==
    /\ ReturnedResolved
    /\ result.success
    /\ Unanswered("weather")
    /\ Unanswered("llm_itinerary")
    /\ DOMAIN result.data = {"places", "itinerary"}

\* C10: whatever the user input and the outcomes of the external calls,
\* the reply's fields missing or null included, process_query raises no
\* exception to the presentation layer.
C10_NeverRaises == pc # "raised"

----------------------------------------------------------------------------
(* The clients called on their own: each method applied once to what its   *)
(* request to its service (Nominatim, Open-Meteo, Overpass) did.           *)

MaxElements == 4
MaxLimit == 3
MaxGeocoded == 3
MaxWeatherCode == 100

\* What requests.get / requests.post, raise_for_status() and
\* response.json() can do besides handing a decoded body over: the two
\* failures the orchestrator's runs draw from, an HTTP error status and
\* a body that is no JSON.
RequestFailures ==
    HttpFailures \cup {[kind |-> "http_error"], [kind |-> "not_json"]}

\* Elements of an Overpass response: two of them named Louvre, places with
\* and without a website or wikipedia tag, one without a name, one that is
\* a museum by its amenity tag (the query asks for those), one on the
\* equator that has a centroid as well.
Elements ==
    { el_louvre,
      el_unnamed,
      [ tags |-> [name |-> PyStr(<<"L","o","u","v","r","e">>),
                  amenity |-> PyAtom("cafe")],
        lat |-> PyInt(49), lon |-> PyInt(3) ],
      [ tags |-> [name |-> PyStr(<<"P","a","r","c">>),
                  leisure |-> PyAtom("park")],
        lat |-> PyInt(48), lon |-> PyInt(2) ],
      [ tags |-> [name |-> PyStr(<<"F","o","r","t">>),
                  historic |-> PyAtom("castle")],
        lat |-> PyInt(48), lon |-> PyInt(2) ],
      [ tags |-> [name |-> PyStr(<<"B","a","r">>),
                  amenity |-> PyAtom("bar"),
                  website |-> PyAtom("https://bar.example")],
        lat |-> PyInt(48), lon |-> PyInt(2) ],
      [ tags |-> [name |-> PyStr(<<"M","u","s","e","e">>),
                  amenity |-> PyAtom("museum")],
        lat |-> PyInt(48), lon |-> PyInt(2) ],
      [ tags |-> [name |-> PyStr(<<"M","i","t","a","d">>),
                  tourism |-> PyAtom("attraction")],
        lat |-> PyInt(0), lon |-> PyInt(-78),
        center |-> PyDict([lat |-> PyInt(1), lon |-> PyInt(-77)]) ] }

PlacesResponses ==
    RequestFailures
    \cup {[kind |-> "json", data |-> EmptyDict]}
    \cup {[kind |-> "json", data |-> [elements |-> s]] :
            s \in SeqsUpTo(Elements, MaxElements)}

\* The candidates of the orchestrator's runs and a second well-formed one
\* of a preferred type.
GeocodingResponses ==
    RequestFailures
    \cup {[kind |-> "json", data |-> d] :
            d \in SeqsUpTo(Candidates
                           \cup {[type |-> "village", lat |-> Numeral(45),
                                  lon |-> Numeral(5),
                                  display_name |-> PyAtom("Paris, Savoie")]},
                           MaxGeocoded)}

\* A decoded body that is JSON but no forecast.
WeatherResponses ==
    RequestFailures
    \cup WeatherOutcomes
    \cup {[kind |-> "json",
           data |-> PyDict([error |-> PyBool(TRUE),
                            reason |-> PyAtom("Internal error")])]}

ClientCalls ==
    {[method |-> "get_coordinates", nominatim |-> h, done |-> FALSE,
      ret |-> Missing] : h \in GeocodingResponses}
    \cup {[method |-> "get_weather", open_meteo |-> h, done |-> FALSE,
           ret |-> Missing] : h \in WeatherResponses}
    \cup {[method |-> "get_tourist_places", overpass |-> h, limit |-> l,
           done |-> FALSE, ret |-> Missing] :
            h \in PlacesResponses, l \in 0..MaxLimit}
    \cup {[method |-> "get_weather_description", weather_code |-> PyInt(c),
           done |-> FALSE, ret |-> Missing] :
            c \in (0 - MaxWeatherCode)..MaxWeatherCode}

locals == <<pc, user_input, search_radius, max_places, query_analysis,
            place_name, intents, days, is_valid, geo_data, weather_data,
            places_data, suggestion, result, calls, exc>>

InitClients ==
    /\ client_call \in ClientCalls
    /\ history = Missing
    /\ session_state = Missing
    /\ page = Missing
    /\ script = Missing
    /\ pc = "start"
    /\ user_input = Missing
    /\ search_radius = Missing
    /\ max_places = Missing
    /\ query_analysis = Missing
    /\ place_name = Missing
    /\ intents = Missing
    /\ days = Missing
    /\ is_valid = Missing
    /\ geo_data = Missing
    /\ weather_data = Missing
    /\ places_data = Missing
    /\ suggestion = Missing
    /\ result = Missing
    /\ calls = <<>>
    /\ exc = "none"

GetCoordinates ==
    /\ client_call.method = "get_coordinates"
    /\ ~client_call.done
    /\ client_call' = [client_call EXCEPT
                         !.done = TRUE,
                         !.ret = get_coordinates(client_call.nominatim)]
    /\ UNCHANGED <<locals, history, session>>

GetWeather ==
    /\ client_call.method = "get_weather"
    /\ ~client_call.done
    /\ client_call' = [client_call EXCEPT
                         !.done = TRUE,
                         !.ret = get_weather(client_call.open_meteo)]
    /\ UNCHANGED <<locals, history, session>>

GetWeatherDescription ==
    /\ client_call.method = "get_weather_description"
    /\ ~client_call.done
    /\ client_call' = [client_call EXCEPT
                         !.done = TRUE,
                         !.ret = get_weather_description(client_call.weather_code.v)]
    /\ UNCHANGED <<locals, history, session>>

GetTouristPlaces ==
    /\ client_call.method = "get_tourist_places"
    /\ ~client_call.done
    /\ client_call' = [client_call EXCEPT
                         !.done = TRUE,
                         !.ret = get_tourist_places(client_call.overpass,
                                                    client_call.limit)]
    /\ UNCHANGED <<locals, history, session>>

NextClients ==
    \/ GetCoordinates
    \/ GetWeather
    \/ GetWeatherDescription
    \/ GetTouristPlaces

SpecClients == InitClients /\ [][NextClients]_vars

----------------------------------------------------------------------------
(* understand_query called on its own: one query, one outcome of the LLM *)

\* The queries of UserInputs, and: nothing typed, a blank, a bare name, a
\* name that is no word, a pattern with its terminator, a greeting in
\* capitals.
QueryInputs ==
    UserInputs \cup
    { <<>>,
      <<" ">>,
      <<"G","o","a">>,
      <<"4","2","?">>,
      <<"v","i","s","i","t"," ","R","o","m","e",","," ","o","k">>,
      <<" ","H","E","L","L","O">> }

UnderstandCalls ==
    {[method |-> "understand_query", query |-> q, groq |-> llm,
      done |-> FALSE, ret |-> Missing] :
        q \in QueryInputs, llm \in IntentLLMOutcomes}

InitUnderstand ==
    /\ client_call \in UnderstandCalls
    /\ history = Missing
    /\ session_state = Missing
    /\ page = Missing
    /\ script = Missing
    /\ pc = "start"
    /\ user_input = Missing
    /\ search_radius = Missing
    /\ max_places = Missing
    /\ query_analysis = Missing
    /\ place_name = Missing
    /\ intents = Missing
    /\ days = Missing
    /\ is_valid = Missing
    /\ geo_data = Missing
    /\ weather_data = Missing
    /\ places_data = Missing
    /\ suggestion = Missing
    /\ result = Missing
    /\ calls = <<>>
    /\ exc = "none"

UnderstandQueryOnly ==
    /\ client_call.method = "understand_query"
    /\ ~client_call.done
    /\ client_call' = [client_call EXCEPT
                         !.done = TRUE,
                         !.ret = understand_query(client_call.query,
                                                  client_call.groq)]
    /\ UNCHANGED <<locals, history, session>>

SpecUnderstand == InitUnderstand /\ [][UnderstandQueryOnly]_vars

----------------------------------------------------------------------------
(* The claims about the clients *)

\* get_tourist_places has returned from a decoded response.
PlacesReturned ==
    /\ client_call.method = "get_tourist_places"
    /\ client_call.done
    /\ client_call.overpass.kind = "json"

\* The elements of the response and the names they carry.
ResponseElements == Get(client_call.overpass.data, "elements", <<>>)

HasName(element) ==
    /\ "tags" \in DOMAIN element
    /\ "name" \in DOMAIN element.tags
    /\ element.tags.name.v # <<>>

DistinctNames ==
    {ResponseElements[i].tags.name :
        i \in {j \in DOMAIN ResponseElements : HasName(ResponseElements[j])}}

\* C11: get_tourist_places returns exactly `limit` places when the response
\* holds more than `limit` distinct named elements, and as many places as
\* there are distinct names otherwise; never more than `limit`.
C11_AtMostLimit ==
    PlacesReturned =>
        /\ Len(client_call.ret) <= client_call.limit
        /\ Len(client_call.ret) =
             IF Cardinality(DistinctNames) > client_call.limit
             THEN client_call.limit
             ELSE Cardinality(DistinctNames)

C11_Witness ==
    /\ PlacesReturned
    /\ client_call.limit = 2
    /\ Cardinality(DistinctNames) = 3
    /\ Len(ResponseElements) = 4
    /\ Len(client_call.ret) = 2

\* The first element of the response that carries the name `name`.
FirstNamed(name) ==
    Min({k \in DOMAIN ResponseElements :
            /\ HasName(ResponseElements[k])
            /\ ResponseElements[k].tags.name = name})

\* C12: the list get_tourist_places returns has no two entries of the same
\* name and no entry without a name, and each entry is built from the first
\* element of the response that carries its name.
C12_UniqueNamesFirstWins ==
    PlacesReturned =>
        /\ \A i, j \in DOMAIN client_call.ret :
             i # j => client_call.ret[i].name # client_call.ret[j].name
        /\ \A i \in DOMAIN client_call.ret :
             /\ client_call.ret[i].name.t = "str"
             /\ client_call.ret[i].name.v # <<>>
             /\ client_call.ret[i].name \in DistinctNames
             /\ client_call.ret[i].tags =
                  ResponseElements[FirstNamed(client_call.ret[i].name)].tags

C12_Witness ==
    /\ PlacesReturned
    /\ \E k, l \in DOMAIN ResponseElements :
         /\ k < l
         /\ HasName(ResponseElements[k])
         /\ HasName(ResponseElements[l])
         /\ ResponseElements[k].tags.name = ResponseElements[l].tags.name
         /\ ResponseElements[k].tags # ResponseElements[l].tags
         /\ \E i \in DOMAIN client_call.ret :
              client_call.ret[i].tags = ResponseElements[k].tags
    /\ \E k \in DOMAIN ResponseElements : ~HasName(ResponseElements[k])

\* A returned place has a website or a wikipedia reference.
HasReference(place) == Truthy(place.website) \/ Truthy(place.wikipedia)

\* C13: when there are more distinct named elements than `limit`, no place
\* without a website and without a wikipedia reference comes before a place
\* that has one in the list get_tourist_places returns.
C13_ReferencedFirst ==
    (PlacesReturned /\ Cardinality(DistinctNames) > client_call.limit) =>
        \A i, j \in DOMAIN client_call.ret :
            (i < j /\ HasReference(client_call.ret[j]))
                => HasReference(client_call.ret[i])

\* The response lists a place without a reference before two with one, and
\* the trimmed list holds one of each kind.
C13_Witness ==
    /\ PlacesReturned
    /\ Cardinality(DistinctNames) > client_call.limit
    /\ Len(ResponseElements) >= 3
    /\ HasName(ResponseElements[1])
    /\ ~Truthy(Get(ResponseElements[1].tags, "website", PyNone))
    /\ ~Truthy(Get(ResponseElements[1].tags, "wikipedia", PyNone))
    /\ \E i, j \in DOMAIN client_call.ret :
         /\ i < j
         /\ HasReference(client_call.ret[i])
         /\ ~HasReference(client_call.ret[j])
         /\ client_call.ret[j].tags = ResponseElements[1].tags

\* The request failed: a timeout, a transport error, an HTTP error status
\* or a body that is no JSON.
RequestFailed(http) == http.kind # "json"

\* A geocoding candidate with its three fields and numeric coordinates.
WellFormed(candidate) ==
    /\ {"lat", "lon", "display_name"} \subseteq DOMAIN candidate
    /\ candidate.lat.num
    /\ candidate.lon.num

\* A decoded weather body that has the shape of a forecast.
IsForecast(data) == data.t = "dict" /\ "current" \in DOMAIN data.v

\* C14: on a timeout, a transport error, an HTTP error status or a
\* malformed payload (a body that is no JSON, or JSON of an unexpected
\* shape) get_coordinates returns None, get_weather returns None and
\* get_tourist_places returns an empty list.
C14_FailuresMapToNothing ==
    client_call.done =>
        /\ (/\ client_call.method = "get_coordinates"
            /\ \/ RequestFailed(client_call.nominatim)
               \/ \A i \in DOMAIN client_call.nominatim.data :
                     ~WellFormed(client_call.nominatim.data[i]))
              => client_call.ret = PyNone
        /\ (/\ client_call.method = "get_weather"
            /\ \/ RequestFailed(client_call.open_meteo)
               \/ ~IsForecast(client_call.open_meteo.data))
              => client_call.ret = PyNone
        /\ (/\ client_call.method = "get_tourist_places"
            /\ RequestFailed(client_call.overpass))
              => client_call.ret = <<>>

\* The integer a decimal numeral denotes, read digit by digit.
RECURSIVE NumeralValue(_)
NumeralValue(s) ==
    IF s = <<>> THEN 0
    ELSE 10 * NumeralValue(SubSeq(s, 1, Len(s) - 1))
         + (CHOOSE d \in 0..9 : Digits[d + 1] = s[Len(s)])

IsNumeral(s) ==
    /\ s # <<>>
    /\ \A i \in DOMAIN s : \E d \in 0..9 : Digits[d + 1] = s[i]
    /\ Len(s) > 1 => s[1] # "0"

SignedValue(s) ==
    IF s # <<>> /\ s[1] = "-" THEN 0 - NumeralValue(Tail(s))
    ELSE NumeralValue(s)

IsSignedNumeral(s) ==
    IF s # <<>> /\ s[1] = "-" THEN IsNumeral(Tail(s)) ELSE IsNumeral(s)

DescriptionReturned ==
    /\ client_call.method = "get_weather_description"
    /\ client_call.done

\* C15: get_weather_description returns the table's label for a code of the
\* weather-code table, and for any other integer the non-empty label
\* "Unknown (<code>)" whose numeral denotes that code.
C15_LookupIsTotal ==
    DescriptionReturned =>
        IF client_call.weather_code.v \in
             {0, 1, 2, 3, 45, 48, 51, 53, 55, 56, 57, 61, 63, 65, 66, 67,
              71, 73, 75, 77, 80, 81, 82, 85, 86, 95, 96, 99}
        THEN client_call.ret = PyAtom(WEATHER_CODES[client_call.weather_code.v])
        ELSE /\ client_call.ret.t = "str"
             /\ Len(client_call.ret.v) > 10
             /\ SubSeq(client_call.ret.v, 1, 9)
                  = <<"U","n","k","n","o","w","n"," ","(">>
             /\ client_call.ret.v[Len(client_call.ret.v)] = ")"
             /\ IsSignedNumeral(SubSeq(client_call.ret.v, 10,
                                       Len(client_call.ret.v) - 1))
             /\ SignedValue(SubSeq(client_call.ret.v, 10,
                                   Len(client_call.ret.v) - 1))
                  = client_call.weather_code.v

\* A code outside the table, of three digits or negative, has been looked
\* up.
C15_Witness ==
    /\ DescriptionReturned
    /\ client_call.weather_code.v \in {100, -1}
    /\ client_call.ret \in
         { PyStr(<<"U","n","k","n","o","w","n"," ","(","1","0","0",")">>),
           PyStr(<<"U","n","k","n","o","w","n"," ","(","-","1",")">>) }

\* get_coordinates has returned from a decoded response.
CoordinatesReturned ==
    /\ client_call.method = "get_coordinates"
    /\ client_call.done
    /\ client_call.nominatim.kind = "json"

Found == client_call.nominatim.data

HasPreferredType(candidate) ==
    /\ "type" \in DOMAIN candidate
    /\ candidate.type \in
         {"city", "town", "village", "municipality", "administrative"}

\* The candidate the selection policy names: the first of a preferred type,
\* the first of all when there is none.
Chosen ==
    IF \E i \in DOMAIN Found : HasPreferredType(Found[i])
    THEN Found[CHOOSE i \in DOMAIN Found :
                 /\ HasPreferredType(Found[i])
                 /\ \A j \in 1..(i - 1) : ~HasPreferredType(Found[j])]
    ELSE Found[1]

\* C16: for a non-empty candidate list get_coordinates returns the
\* coordinates and display name of the first candidate of a preferred type,
\* and of the first candidate when none has such a type; for an empty list
\* it returns None.  (A chosen candidate that lacks a coordinate or the
\* display name has nothing to return: the result is None.)
C16_SelectionPolicy ==
    CoordinatesReturned =>
        IF Found = <<>> THEN client_call.ret = PyNone
        ELSE IF WellFormed(Chosen)
        THEN /\ client_call.ret.t = "dict"
             /\ client_call.ret.v.lat = Chosen.lat.val
             /\ client_call.ret.v.lon = Chosen.lon.val
             /\ client_call.ret.v.display_name = Chosen.display_name
        ELSE client_call.ret = PyNone

\* An attraction, then two candidates of a preferred type: the second
\* candidate is the one returned.
C16_Witness ==
    /\ CoordinatesReturned
    /\ Len(Found) = 3
    /\ ~HasPreferredType(Found[1])
    /\ WellFormed(Found[1])
    /\ HasPreferredType(Found[2])
    /\ HasPreferredType(Found[3])
    /\ Found[2] # Found[3]
    /\ WellFormed(Found[3])
    /\ client_call.ret.t = "dict"
    /\ client_call.ret.v.display_name = Found[2].display_name

----------------------------------------------------------------------------
(* process_query called twice with the same arguments and the same         *)
(* answers from the services: a first call is recorded, a second one is    *)
(* given the recorded arguments and answers.  Calls made before the first  *)
(* are not recorded (history = Missing).  The texts of tips, itinerary and *)
(* summary are not part of what is repeated.                               *)

RepeatIntentOutcomes ==
    {[kind |-> "raise"]}
    \cup {[kind |-> "reply",
           content |-> PyStr(<<JsonText(PyDict(IntentObject(
                                  PyStr(s_Paris), i, PyInt(3), PyBool(TRUE))))>>)] :
            i \in {PyNone, PyList({"weather"}), PyList({"itinerary"}),
                   PyList({"tips", "general"}), PyList({"greeting"})}}

RepeatGeocodingOutcomes ==
    {o \in GeocodingOutcomes : o.kind # "json" \/ Len(o.data) <= 1}

\* The keys of the bundle the call returned, at the top level and inside
\* data; the exception when it returned none.
Shape ==
    IF pc = "raised" THEN [raised |-> exc]
    ELSE [top |-> DOMAIN result,
          data |-> IF "data" \in DOMAIN result THEN DOMAIN result.data ELSE {}]

\* process_query is entered: an unrecorded call, the first recorded call,
\* or the second one with the arguments of the first.
Begin(input, settings) ==
    IF history = Missing
    THEN history' \in {Missing,
                       [run |-> 1, input |-> input, settings |-> settings,
                        replies |-> <<>>, at |-> 1, shape |-> Missing,
                        answered |-> {}]}
    ELSE /\ history.run = 2
         /\ input = history.input
         /\ settings = history.settings
         /\ UNCHANGED history

\* A service answers: the first call records the answer, the second call
\* gets the answer recorded at the same place.
Answered(service, outcome) ==
    IF history = Missing THEN UNCHANGED history
    ELSE IF history.run = 1
    THEN history' = [history EXCEPT
                       !.replies = Append(@, [to |-> service,
                                              outcome |-> outcome])]
    ELSE /\ history.at <= Len(history.replies)
         /\ history.replies[history.at].to = service
         /\ history.replies[history.at].outcome = outcome
         /\ history' = [history EXCEPT !.at = @ + 1]

\* process_query is left: the first call's shape is kept for the second,
\* with the services that answered it.
End ==
    IF history = Missing THEN UNCHANGED history
    ELSE IF history.run = 1
    THEN history' = [history EXCEPT
                       !.run = 2,
                       !.shape = Shape,
                       !.answered = {calls[i].to :
                                       i \in {j \in DOMAIN calls :
                                                 calls[j].answered}}]
    ELSE history' = Missing

NextRepeat ==
    \/ \E input \in UserInputs, settings \in SearchSettings :
         ProcessQuery(input, settings) /\ Begin(input, settings)
         /\ UNCHANGED <<client_call, session>>
    \/ \E llm \in RepeatIntentOutcomes :
         UnderstandQuery(llm) /\ Answered("llm_intent", llm)
         /\ UNCHANGED <<client_call, session>>
    \/ \E http \in RepeatGeocodingOutcomes :
         Geocode(http) /\ Answered("geocoding", http)
         /\ UNCHANGED <<client_call, session>>
    \/ \E llm \in SpellingLLMOutcomes :
         SuggestSpelling(llm) /\ Answered("llm_spelling", llm)
         /\ UNCHANGED <<client_call, session>>
    \/ \E http \in WeatherOutcomes :
         FetchWeather(http) /\ Answered("weather", http)
         /\ UNCHANGED <<client_call, session>>
    \/ SkipWeather /\ UNCHANGED aux
    \/ \E http \in PlacesOutcomes :
         FetchPlaces(http) /\ Answered("places", http)
         /\ UNCHANGED <<client_call, session>>
    \/ SkipPlaces /\ UNCHANGED aux
    \/ \E llm \in TextLLMOutcomes : GenerateTips(llm) /\ UNCHANGED aux
    \/ SkipTips /\ UNCHANGED aux
    \/ \E llm \in TextLLMOutcomes : GenerateItinerary(llm) /\ UNCHANGED aux
    \/ SkipItinerary /\ UNCHANGED aux
    \/ \E llm \in TextLLMOutcomes : Summarize(llm) /\ UNCHANGED aux
    \/ Return /\ End /\ UNCHANGED <<client_call, session>>

SpecRepeat == Init /\ [][NextRepeat]_vars

Repeating == history # Missing /\ history.run = 2

\* The service whose answer the call is about to ask for, if any.
Asking ==
    CASE pc = "understanding" -> "llm_intent"
      [] pc = "resolving" -> "geocoding"
      [] pc = "suggesting" -> "llm_spelling"
      [] pc = "weather" /\ WantsWeather(intents) -> "weather"
      [] pc = "places" /\ WantsPlaces(intents) -> "places"
      [] OTHER -> "none"

\* C17: a second call of process_query with the arguments of a first one,
\* given the same answers from the intent call, geocoding, the spelling
\* call, the weather service and the points-of-interest service, asks the
\* same services in the same order and returns a bundle with the same keys
\* at the top level and inside data (or raises as the first did), whatever
\* was processed before and whatever the texts of tips, itinerary and
\* summary are.
C17_SameShape ==
    Repeating =>
        /\ pc \in {"returned", "raised"} =>
             /\ Shape = history.shape
             /\ history.at = Len(history.replies) + 1
        /\ Asking # "none" =>
             /\ history.at <= Len(history.replies)
             /\ history.replies[history.at].to = Asking

\* The second call has returned a bundle with tips and a summary although
\* its tips call and its summary call failed, and the first call's had
\* been answered.
C17_Witness ==
    /\ Repeating
    /\ pc = "returned"
    /\ "data" \in DOMAIN result
    /\ "tips" \in DOMAIN result.data
    /\ Unanswered("llm_tips")
    /\ Unanswered("llm_summary")
    /\ {"llm_tips", "llm_summary"} \subseteq history.answered
    /\ Shape = history.shape

----------------------------------------------------------------------------
(* The claims about the course of one call of process_query *)

\* An integer of at least 1.
IsTripLength(d) == d.t = "int" /\ d.v >= 1

\* C18: the trip length process_query reads from the query analysis, and
\* the number of days it passes to get_itinerary, is an integer of at least
\* 1, whatever the intent LLM replied.
C18_DaysAtLeastOne ==
    /\ days # Missing => IsTripLength(days)
    /\ Called("llm_itinerary") => IsTripLength(days)

\* The steps of the state machine: understanding, then rejected or
\* resolving, then not found (with its spelling suggestion) or resolved,
\* then weather, points of interest, tips, itinerary, the summary, done.
StageOrder ==
    { <<"start", "understanding">>,
      <<"understanding", "returned">>,
      <<"understanding", "resolving">>,
      <<"resolving", "suggesting">>,
      <<"suggesting", "returned">>,
      <<"resolving", "weather">>,
      <<"weather", "places">>,
      <<"places", "tips">>,
      <<"tips", "itinerary">>,
      <<"itinerary", "summarizing">>,
      <<"summarizing", "returned">>,
      <<"returned", "start">> }

\* C19: every call of process_query goes through its stages in the order
\* of the state machine, none revisited, and ends rejected, not found or
\* done, each time returning a result bundle.
C19_StagesInOrder ==
    [][/\ <<pc, pc'>> \in StageOrder
       /\ pc' = "returned" => "success" \in DOMAIN result']_vars

\* C20: within one call of process_query each external call site (the
\* intent call, geocoding, the spelling call, the weather fetch, the
\* points-of-interest fetch, the tips, itinerary and summary calls) is
\* used at most once, also when its request fails.
C20_SingleAttempt ==
    \A service \in {"llm_intent", "geocoding", "llm_spelling", "weather",
                    "places", "llm_tips", "llm_itinerary", "llm_summary"} :
        Requests(service) <= 1

\* The call has returned after its intent call, its weather fetch and its
\* points-of-interest fetch all failed, each asked once.
C20_Witness ==
    /\ pc = "returned"
    /\ Unanswered("llm_intent")
    /\ Unanswered("weather")
    /\ Unanswered("places")
    /\ Requests("llm_intent") = 1
    /\ Requests("weather") = 1
    /\ Requests("places") = 1
    /\ Len(calls) = 5

\* The call has returned the help message of a rejected query.
Rejected == pc = "returned" /\ result = RejectedBundle

\* C21: on a rejected (greeting or invalid) query the intent-understanding
\* LLM call is the only external call of the run: no geocoding, weather,
\* points-of-interest, tips, itinerary, spelling or summary call is made.
C21_RejectedAsksOnlyIntent ==
    Rejected => Len(calls) = 1 /\ calls[1].to = "llm_intent"

\* A query rejected on the verdict the intent LLM replied.
C21_Witness ==
    /\ Rejected
    /\ calls # <<>>
    /\ calls[1].answered
    /\ is_valid = PyBool(FALSE)

\* The key as the claim words it: its second component looks at the
\* entry's category label, the `type` of the returned place.
KeyByCategory(place) ==
    << IF HasReference(place) THEN 0 ELSE 1,
       IF InAtoms(place.type, {"museum", "gallery", "attraction", "viewpoint"})
       THEN 0 ELSE 1,
       IF Truthy(Get(place.tags, "historic", PyNone)) THEN 0 ELSE 1,
       IF InAtoms(Get(place.tags, "leisure", PyNone), {"park", "garden"})
       THEN 0 ELSE 1,
       Len(place.name.v) >>

\* The deduplicated places that are not in the returned list.
Dropped ==
    {PlaceInfo(ResponseElements[FirstNamed(n)]) :
        n \in {m \in DistinctNames :
                 \A i \in DOMAIN client_call.ret : client_call.ret[i].name # m}}

\* C22: when the deduplicated points of interest exceed `limit`, the
\* returned list is in ascending order of the key (reference, category
\* label among museum/gallery/attraction/viewpoint, historic tag, leisure
\* park or garden, name length) and no returned entry's key is greater
\* than a dropped entry's key.
C22_LowestKeysKept ==
    (PlacesReturned /\ Cardinality(DistinctNames) > client_call.limit) =>
        /\ \A i, j \in DOMAIN client_call.ret :
             i < j => ~TupleLess(KeyByCategory(client_call.ret[j]),
                                 KeyByCategory(client_call.ret[i]))
        /\ \A i \in DOMAIN client_call.ret :
             \A d \in Dropped :
                ~TupleLess(KeyByCategory(d), KeyByCategory(client_call.ret[i]))

\* The response element a returned place was built from.
ElementOf(place) == ResponseElements[FirstNamed(place.name)]

\* C23: a returned place carries its element's own latitude and longitude
\* whenever the element has direct coordinates (a coordinate equal to 0
\* included), and the centroid's when a direct coordinate is absent and a
\* centroid is provided.
C23_OwnCoordinatesElseCentroid ==
    PlacesReturned =>
        \A i \in DOMAIN client_call.ret :
            IF {"lat", "lon"} \subseteq DOMAIN ElementOf(client_call.ret[i])
            THEN /\ client_call.ret[i].lat = ElementOf(client_call.ret[i]).lat
                 /\ client_call.ret[i].lon = ElementOf(client_call.ret[i]).lon
            ELSE "center" \in DOMAIN ElementOf(client_call.ret[i]) =>
                 /\ client_call.ret[i].lat
                      = ElementOf(client_call.ret[i]).center.v.lat
                 /\ client_call.ret[i].lon
                      = ElementOf(client_call.ret[i]).center.v.lon

----------------------------------------------------------------------------
(* The claims about understand_query called on its own *)

Understood ==
    /\ client_call.method = "understand_query"
    /\ client_call.done

\* The LLM call raised, or its reply is no text or holds no JSON object.
NoStructuredReply ==
    \/ client_call.groq.kind = "raise"
    \/ IsNone(client_call.groq.content)
    \/ json_loads(StripFences(client_call.groq.content.v)).t # "dict"

\* C24: when the intent LLM call raises or its reply cannot be read as the
\* structured object, understand_query returns the fallback: for an input
\* that lower-cased and trimmed is a greeting word, place None, intents
\* [greeting], is_valid_query false; for any other input, place
\* extract_place_name(input), intents [weather, places], days 1 and
\* is_valid_query true exactly when that place is non-empty.
C24_Fallback ==
    (Understood /\ NoStructuredReply) =>
        IF Strip(Lower(client_call.query)) \in
             { <<"h","i">>, <<"h","e","l","l","o">>, <<"h","e","y">>,
               <<"t","h","a","n","k","s">>,
               <<"t","h","a","n","k"," ","y","o","u">>, <<"b","y","e">>,
               <<"g","o","o","d","b","y","e">> }
        THEN /\ client_call.ret.place = PyNone
             /\ client_call.ret.intents = PyList({"greeting"})
             /\ client_call.ret.is_valid_query = PyBool(FALSE)
        ELSE /\ client_call.ret.place
                  = PyStr(extract_place_name(client_call.query))
             /\ client_call.ret.intents = PyList({"weather", "places"})
             /\ client_call.ret.days = PyInt(1)
             /\ client_call.ret.is_valid_query
                  = PyBool(extract_place_name(client_call.query) # <<>>)

\* A reply that is no JSON, to a query that is no greeting and names Paris.
C24_Witness ==
    /\ Understood
    /\ client_call.groq.kind = "reply"
    /\ ~IsNone(client_call.groq.content)
    /\ json_loads(StripFences(client_call.groq.content.v)) = JSONDecodeError
    /\ client_call.ret.place = PyStr(s_Paris)
    /\ client_call.ret.is_valid_query = PyBool(TRUE)

----------------------------------------------------------------------------
(* The claims about the generated texts *)

Succeeded == pc = "returned" /\ result.success

\* A string, as opposed to None.
IsText(x) == x.t \in {"str", "atom", "fstr"}

\* C25: the insights client and _generate_summary return their fixed
\* strings when the LLM call fails, so every success bundle has a non-empty
\* summary, and the tips and itinerary keys, when their gates held, hold a
\* text: the generated one or the placeholder.
C25_TextsAlwaysThere ==
    Succeeded =>
        /\ "summary" \in DOMAIN result
        /\ IsText(result.summary) /\ Truthy(result.summary)
        /\ "tips" \in DOMAIN result.data => IsText(result.data.tips)
        /\ "itinerary" \in DOMAIN result.data =>
               IsText(result.data.itinerary)

----------------------------------------------------------------------------
(* The claims about the fallback path inside process_query *)

\* What the fallback makes of each query.
FallbackOf == [s \in UserInputs |-> Fallback(s)]

\* The analysis process_query works on is the fallback one: the intent call
\* went unanswered, or what came back was replaced by the fallback.
OnFallbackPath ==
    /\ pc \notin {"start", "understanding"}
    /\ Unanswered("llm_intent") \/ query_analysis = FallbackOf[user_input]

\* No pattern of extract_place_name matches the input and no word of it
\* is capitalized.
NoMatch(ms) == \A k \in DOMAIN ms : ms[k] = {}
NamesNothing ==
    {s \in UserInputs :
        NoMatch(PatternMatches(s)) /\ CapitalizedWords(Split(s)) = <<>>}

----------------------------------------------------------------------------
(* app.py: one browser session, one action per run of the script *)

\* The largest number of runs of the script in one session.
MaxRuns == 4

\* Lines 53, 60, 69 and 76: the query each example button fills in.
Examples ==
    { PyAtom("What's the weather in Paris?"),
      PyAtom("Show me places to visit in Tokyo"),
      PyAtom("Plan a 3-day itinerary for Rome with travel tips"),
      PyAtom("I'm going to Bangalore, let's plan my trip") }

\* What the user leaves in the text box: nothing, a greeting, a place.
Typed == {PyAtom(""), PyAtom("hi"), PyAtom("Goa")}

\* What process_query does when process_search calls it: it raises (a
\* TypeError on intents that are no list), or returns the help bundle, a
\* not-found bundle, or the bundle of a resolved place, its summary
\* possibly empty.
ProcessQueryOutcomes ==
    << [kind |-> "raise"],
       [kind |-> "return", bundle |-> RejectedBundle],
       [kind |-> "return",
        bundle |-> NotFoundBundle(PyAtom("Goa"), PyNone)],
       [kind |-> "return",
        bundle |-> Put(SuccessBundle(PyAtom("Goa"),
                                     CandidateResult(
                                         [lat |-> Numeral(15),
                                          lon |-> Numeral(74),
                                          display_name |-> PyAtom("Goa, India")]),
                                     PyList({"weather", "places"})),
                       "summary", PyStr(<<" ","o","k">>))],
       [kind |-> "return",
        bundle |-> Put(SuccessBundle(PyAtom("Paris"),
                                     CandidateResult(
                                         [lat |-> Numeral(48),
                                          lon |-> Numeral(2),
                                          display_name |-> PyAtom("Paris, France")]),
                                     PyList({"weather"})),
                       "summary", PyStr(<<>>))] >>

\* st.session_state.pop(k, None)
Pop(d, k) == [j \in DOMAIN d \ {k} |-> d[j]]

\* Lines 262-264, the construction done now or in an earlier run.
Initialized(s) ==
    IF "orchestrator" \in DOMAIN s THEN s
    ELSE Put(s, "orchestrator", PyAtom("TourismOrchestrator"))

\* The script runs counted, with the construction this run makes.
Constructed ==
    IF "orchestrator" \in DOMAIN session_state
    THEN [script EXCEPT !.runs = @ + 1]
    ELSE [script EXCEPT !.runs = @ + 1, !.constructions = @ + 1]

\* st.text_input(value=st.session_state.get('query', ''), key='user_input'):
\* what the user typed in this interaction; on its first rendering the
\* value passed; afterwards the text the widget kept or, when the value
\* passed makes it a new widget, that value.
text_input(s, typed, adopt) ==
    IF typed # Missing THEN typed
    ELSE IF "user_input" \notin DOMAIN s \/ adopt
    THEN Get(s, "query", PyAtom(""))
    ELSE s.user_input

\* get_user_input, lines 103-120, for the text the widget returned.
get_user_input(s, query) == Put(Put(s, "user_input", query), "query", query)

\* Line 287.
should_search(s, search_button, user_query) ==
    \/ search_button /\ Truthy(user_query)
    \/ Get(s, "trigger_search", FALSE) /\ Truthy(user_query)

\* process_search caching whatever bundle process_query returned.
process_searchCachingAll(s, outcome) ==
    IF outcome.kind = "raise"
    THEN [state |-> s, page |-> {"exception"}]
    ELSE [state |-> Put(s, "last_result", outcome.bundle),
          page |-> IF outcome.bundle.success THEN {"result"}
                   ELSE IF Get(outcome.bundle, "is_greeting", FALSE)
                   THEN {"info"} ELSE {"error"}]

\* process_search, lines 134-251: the session state it leaves and what it
\* puts on the page.
process_search(s, outcome) ==
    IF outcome.kind = "raise"
    THEN [state |-> s, page |-> {"exception"}]
    ELSE IF ~outcome.bundle.success
    THEN [state |-> s,
          page |-> IF Get(outcome.bundle, "is_greeting", FALSE)
                   THEN {"info"} ELSE {"error"}]
    ELSE [state |-> Put(s, "last_result", outcome.bundle),
          page |-> IF Truthy(Get(outcome.bundle, "summary", PyNone))
                   THEN {"result", "summary"} ELSE {"result"}]

\* A run of the script begins: on an interaction of the user, or because
\* the run before it ended in st.rerun() (then nothing is clicked or typed).
Run(button, typed) ==
    /\ script.runs < MaxRuns
    /\ script.rerun => button = "none" /\ typed = Missing

InitSession ==
    /\ session_state = EmptyDict
    /\ page = {}
    /\ script = [runs |-> 0, rerun |-> FALSE, constructions |-> 0,
                 failed |-> FALSE, searches |-> 0]
    /\ client_call = Missing
    /\ history = Missing
    /\ pc = "start"
    /\ user_input = Missing
    /\ search_radius = Missing
    /\ max_places = Missing
    /\ query_analysis = Missing
    /\ place_name = Missing
    /\ intents = Missing
    /\ days = Missing
    /\ is_valid = Missing
    /\ geo_data = Missing
    /\ weather_data = Missing
    /\ places_data = Missing
    /\ suggestion = Missing
    /\ result = Missing
    /\ calls = <<>>
    /\ exc = "none"

\* Lines 52-79: an example button of the sidebar, which is rendered before
\* the orchestrator is looked for.
ExampleClicked(example) ==
    /\ Run("example", Missing)
    /\ session_state' = Put(Put(session_state, "query", example),
                            "trigger_search", TRUE)
    /\ page' = {}
    /\ script' = [script EXCEPT !.runs = @ + 1, !.rerun = TRUE]
    /\ UNCHANGED <<locals, client_call, history>>

\* Lines 262-269: TourismOrchestrator(...) or st.secrets[...] raises.
InitializationFails ==
    /\ script.runs < MaxRuns
    /\ "orchestrator" \notin DOMAIN session_state
    /\ page' = {"init_error"}
    /\ script' = [script EXCEPT !.runs = @ + 1, !.rerun = FALSE,
                                !.constructions = @ + 1, !.failed = TRUE]
    /\ UNCHANGED <<session_state, locals, client_call, history>>

\* Lines 278-284.
ClearClicked(typed, adopt) ==
    /\ Run("clear", typed)
    /\ session_state' =
         Pop(Pop(Put(Put(get_user_input(Initialized(session_state),
                                        text_input(session_state, typed,
                                                   adopt)),
                         "query", PyAtom("")),
                     "trigger_search", FALSE),
                 "last_result"),
             "last_query")
    /\ page' = {}
    /\ script' = [Constructed EXCEPT !.rerun = TRUE]
    /\ UNCHANGED <<locals, client_call, history>>

\* Lines 287-300.
Search(search_button, typed, adopt, outcome) ==
    LET user_query == text_input(session_state, typed, adopt)
        s == get_user_input(Initialized(session_state), user_query)
        shown == process_search(Put(Put(s, "trigger_search", FALSE),
                                    "last_query", user_query),
                                outcome)
    IN  /\ Run(IF search_button THEN "search" ELSE "none", typed)
        /\ should_search(s, search_button, user_query)
        /\ session_state' = shown.state
        /\ page' = shown.page
        /\ script' = [Constructed EXCEPT !.rerun = FALSE,
                                         !.searches = @ + 1]
        /\ UNCHANGED <<locals, client_call, history>>

\* Lines 301-303.
EmptySearch(typed, adopt) ==
    LET user_query == text_input(session_state, typed, adopt)
        s == get_user_input(Initialized(session_state), user_query)
    IN  /\ Run("search", typed)
        /\ ~should_search(s, TRUE, user_query)
        /\ session_state' = s
        /\ page' = {"warning"}
        /\ script' = [Constructed EXCEPT !.rerun = FALSE]
        /\ UNCHANGED <<locals, client_call, history>>

\* A run in which no button is pressed and no search is due: the widgets
\* are drawn and nothing else.
Rerender(typed, adopt) ==
    LET user_query == text_input(session_state, typed, adopt)
        s == get_user_input(Initialized(session_state), user_query)
    IN  /\ Run("none", typed)
        /\ ~should_search(s, FALSE, user_query)
        /\ session_state' = s
        /\ page' = {}
        /\ script' = [Constructed EXCEPT !.rerun = FALSE]
        /\ UNCHANGED <<locals, client_call, history>>

NextSession ==
    \/ \E example \in Examples : ExampleClicked(example)
    \/ InitializationFails
    \/ \E typed \in Typed \cup {Missing}, adopt \in BOOLEAN :
         ClearClicked(typed, adopt)
    \/ \E search_button \in BOOLEAN, typed \in Typed \cup {Missing},
          adopt \in BOOLEAN, i \in DOMAIN ProcessQueryOutcomes :
         Search(search_button, typed, adopt, ProcessQueryOutcomes[i])
    \/ \E typed \in Typed \cup {Missing}, adopt \in BOOLEAN :
         EmptySearch(typed, adopt)
    \/ \E typed \in Typed \cup {Missing}, adopt \in BOOLEAN :
         Rerender(typed, adopt)

SpecSession == InitSession /\ [][NextSession]_vars

----------------------------------------------------------------------------
(* The claims about the session *)

\* C26: once the construction of the orchestrator has failed in a session,
\* the failure is shown in that run, and afterwards no construction is
\* attempted and no query is processed in the session.
C26_FailureIsFinal ==
    [][ /\ InitializationFails => "init_error" \in page'
        /\ script.failed =>
             /\ script'.constructions = script.constructions
             /\ script'.searches = script.searches ]_vars

\* C27: with a result cached by a successful search, a run in which no
\* search is triggered shows that result again and does not call
\* process_query.
C27_RerenderRedisplays ==
    [][ ( /\ "last_result" \in DOMAIN session_state
          /\ \E typed \in Typed \cup {Missing}, adopt \in BOOLEAN :
               Rerender(typed, adopt) )
        => /\ "result" \in page'
           /\ script'.searches = script.searches ]_vars

\* This run called process_query and got no success bundle back: the call
\* raised, or returned the help bundle or a not-found bundle.
FailedSearch ==
    /\ script'.searches = script.searches + 1
    /\ page' \cap {"info", "error", "exception"} # {}

KeepsLastResult ==
    /\ "last_result" \in DOMAIN session_state'
         <=> "last_result" \in DOMAIN session_state
    /\ "last_result" \in DOMAIN session_state =>
         session_state'.last_result = session_state.last_result

====
